---- MODULE Spec2Model ----
(***************************************************************************)
(* Model of the session-authentication and command-dispatch core:          *)
(*   common/protocol.py       length-prefixed framing                      *)
(*   server/token_manager.py  credential store                             *)
(*   server/client_handler.py session handler, registry, dispatcher        *)
(*   server/cli.py            operator commands                            *)
(*   client/client.py         the endpoint                                 *)
(***************************************************************************)
EXTENDS Integers, Sequences, FiniteSets, TLC

VARIABLES
    fr,         \* framing harness: one socket, its sender and its receiver
    frPrev,     \* outcome of the receiver's previous recv_message call
    rt,         \* result harness: an output pair, its RESULT frame, its parse
    db,         \* token_manager: the tokens table, hostname -> row
    gen,        \* number of tokens generate_token() has produced
    call,       \* the last token_manager call: op, hostname, table before, result
    clients,    \* client_handler.clients: hostname -> connection of the entry
    lock,       \* holder, or "free", of clients_lock and of each entry's 'lock'
    notif,      \* notifications.notification_queue: hostnames, oldest first
    conn,       \* per accepted connection: socket, handler thread, remote peer
    nconn,      \* connections accepted so far
    tokenFile,  \* per endpoint machine: content of client_token.txt
    thr,        \* per server thread calling send_command_to_client: its position
    opc,        \* the operator thread inside a cli command: position and target
    budget      \* dispatches and kicks issued so far

frVars == <<fr, frPrev, rt>>

storeVars == <<db, gen, call>>

sysVars == <<clients, lock, notif, conn, nconn, tokenFile, thr, opc, budget>>

vars == <<fr, frPrev, rt, db, gen, call, clients, lock, notif, conn, nconn,
          tokenFile, thr, opc, budget>>

(***************************************************************************)
(* Part 1.  Wire protocol (common/protocol.py)                             *)
(*                                                                         *)
(* A byte string is kept run-length encoded: a sequence of runs <<b, n>>,  *)
(* n >= 1, adjacent runs carrying different bytes.  A str is kept the same *)
(* way over code points.  This lets a payload of MAX_MESSAGE_SIZE bytes be *)
(* a value.                                                                *)
(***************************************************************************)

MAX_MESSAGE_SIZE == 10 * 1024 * 1024

RetNone == [kind |-> "None"]

RECURSIVE Norm(_)
Norm(r) ==
    IF Len(r) = 0 THEN <<>>
    ELSE IF r[1][2] = 0 THEN Norm(Tail(r))
    ELSE IF Len(r) = 1 THEN r
    ELSE IF r[2][2] = 0 THEN Norm(<<r[1]>> \o Tail(Tail(r)))
    ELSE IF r[1][1] = r[2][1]
         THEN Norm(<<<<r[1][1], r[1][2] + r[2][2]>>>> \o Tail(Tail(r)))
    ELSE <<r[1]>> \o Norm(Tail(r))

RCat(a, b) == Norm(a \o b)

RECURSIVE RLen(_)
RLen(r) == IF Len(r) = 0 THEN 0 ELSE r[1][2] + RLen(Tail(r))

RECURSIVE RTake(_, _)
RTake(r, n) ==
    IF n <= 0 \/ Len(r) = 0 THEN <<>>
    ELSE IF r[1][2] >= n THEN <<<<r[1][1], n>>>>
    ELSE <<r[1]>> \o RTake(Tail(r), n - r[1][2])

RECURSIVE RDrop(_, _)
RDrop(r, n) ==
    IF n <= 0 \/ Len(r) = 0 THEN r
    ELSE IF r[1][2] > n THEN <<<<r[1][1], r[1][2] - n>>>> \o Tail(r)
    ELSE RDrop(Tail(r), n - r[1][2])

\* the explicit sequence behind a (short) run-length string
RECURSIVE Expand(_)
Expand(r) ==
    IF Len(r) = 0 THEN <<>>
    ELSE [i \in 1..r[1][2] |-> r[1][1]] \o Expand(Tail(r))

Runs(s) == Norm([i \in 1..Len(s) |-> <<s[i], 1>>])

\* str.encode('utf-8') of one code point (code points below U+10000)
Utf8OfCodePoint(cp) ==
    IF cp < 128 THEN <<cp>>
    ELSE IF cp < 2048 THEN <<192 + (cp \div 64), 128 + (cp % 64)>>
    ELSE <<224 + (cp \div 4096), 128 + ((cp \div 64) % 64), 128 + (cp % 64)>>

RECURSIVE Repeat(_, _)
Repeat(s, n) == IF n <= 0 THEN <<>> ELSE s \o Repeat(s, n - 1)

\* message.encode('utf-8')
RECURSIVE encode_utf8(_)
encode_utf8(text) ==
    IF Len(text) = 0 THEN <<>>
    ELSE IF text[1][1] < 128
         THEN RCat(<<text[1]>>, encode_utf8(Tail(text)))
         ELSE RCat(Runs(Repeat(Utf8OfCodePoint(text[1][1]), text[1][2])),
                   encode_utf8(Tail(text)))

IsCont(b) == b >= 128 /\ b <= 191

REPLACEMENT == 65533

\* bytes.decode('utf-8', errors='replace') on an explicit byte sequence
RECURSIVE DecodeBytes(_)
DecodeBytes(s) ==
    IF Len(s) = 0 THEN <<>>
    ELSE LET b == s[1] IN
      IF b < 128 THEN <<b>> \o DecodeBytes(Tail(s))
      ELSE IF b >= 194 /\ b <= 223
        THEN IF Len(s) >= 2 /\ IsCont(s[2])
             THEN <<(b - 192) * 64 + (s[2] - 128)>> \o DecodeBytes(Tail(Tail(s)))
             ELSE <<REPLACEMENT>> \o DecodeBytes(Tail(s))
      ELSE IF b >= 224 /\ b <= 239
        THEN IF Len(s) >= 2 /\ IsCont(s[2])
                /\ (b = 224 => s[2] >= 160) /\ (b = 237 => s[2] <= 159)
             THEN IF Len(s) >= 3 /\ IsCont(s[3])
                  THEN <<(b - 224) * 4096 + (s[2] - 128) * 64 + (s[3] - 128)>>
                       \o DecodeBytes(Tail(Tail(Tail(s))))
                  ELSE <<REPLACEMENT>> \o DecodeBytes(Tail(Tail(s)))
             ELSE <<REPLACEMENT>> \o DecodeBytes(Tail(s))
      ELSE <<REPLACEMENT>> \o DecodeBytes(Tail(s))

\* number of leading runs that carry non-ASCII bytes
RECURSIVE HighPrefix(_)
HighPrefix(r) ==
    IF Len(r) = 0 \/ r[1][1] < 128 THEN 0 ELSE 1 + HighPrefix(Tail(r))

\* message_data.decode('utf-8', errors='replace'); an ASCII byte always ends
\* a multi-byte sequence, so ASCII runs decode run by run
RECURSIVE decode_utf8(_)
decode_utf8(r) ==
    IF Len(r) = 0 THEN <<>>
    ELSE IF r[1][1] < 128 THEN RCat(<<r[1]>>, decode_utf8(Tail(r)))
    ELSE LET k == HighPrefix(r) IN
         RCat(Runs(DecodeBytes(Expand(SubSeq(r, 1, k)))),
              decode_utf8(SubSeq(r, k + 1, Len(r))))

\* struct.pack('>I', n)
pack_u32(n) ==
    <<n \div 16777216, (n \div 65536) % 256, (n \div 256) % 256, n % 256>>

\* struct.unpack('>I', data)[0].  TLC's integers end at 2^31 - 1: a
\* header of 2^31 or more is read as 2^31 - 1, which is as far above
\* MAX_MESSAGE_SIZE as the comparison it feeds can tell.
unpack_u32(s) ==
    IF s[1] >= 128 THEN 2147483647
    ELSE s[1] * 16777216 + s[2] * 65536 + s[3] * 256 + s[4]

(***************************************************************************)
(* A socket's receive side: data, the bytes still to be read, and atEnd,   *)
(* what recv() does once they are used up: "closed" (recv returns b'') or  *)
(* "timeout" (recv raises socket.timeout).                                 *)
(***************************************************************************)

\* recv_exact(sock, n): [data, sock] with data = None when the stream closed
recv_exact(sock, n) ==
    IF RLen(sock.data) >= n
    THEN [kind |-> "bytes", data |-> RTake(sock.data, n),
          sock |-> [sock EXCEPT !.data = RDrop(sock.data, n)]]
    ELSE [kind |-> IF sock.atEnd = "closed" THEN "None" ELSE "timeout",
          data |-> <<>>,
          sock |-> [sock EXCEPT !.data = <<>>]]

AcceptsLength_exclusive(message_length) == ~(message_length >= MAX_MESSAGE_SIZE)

\* the sanity check: if message_length > MAX_MESSAGE_SIZE: raise
AcceptsLength(message_length) == ~(message_length > MAX_MESSAGE_SIZE)

\* recv_message(sock): ret is [kind |-> "str", val |-> text], None, or
\* [kind |-> "timeout"] when socket.timeout propagates
recv_message(sock) ==
    LET hdr == recv_exact(sock, 4) IN
    IF hdr.kind = "timeout" THEN [ret |-> [kind |-> "timeout"], sock |-> hdr.sock]
    ELSE IF hdr.kind = "None" THEN [ret |-> RetNone, sock |-> hdr.sock]
    ELSE LET message_length == unpack_u32(Expand(hdr.data)) IN
      IF ~AcceptsLength(message_length)
      THEN [ret |-> RetNone, sock |-> hdr.sock]
      ELSE LET body == recv_exact(hdr.sock, message_length) IN
        IF body.kind = "timeout"
        THEN [ret |-> [kind |-> "timeout"], sock |-> body.sock]
        ELSE IF body.kind = "None" \/ RLen(body.data) = 0
        THEN [ret |-> RetNone, sock |-> body.sock]
        ELSE [ret |-> [kind |-> "str", val |-> decode_utf8(body.data)],
              sock |-> body.sock]

\* send_message(sock, message) for a str message on a writable socket: the
\* bytes handed to sendall (struct.pack accepts every length below 2^32)
send_message(message) ==
    LET data == encode_utf8(message) IN
    [ok |-> TRUE, bytes |-> RCat(Runs(pack_u32(RLen(data))), data)]

(***************************************************************************)
(* Framing harness: a sender writes one frame with send_message (or a peer *)
(* writes raw bytes), the stream may end early, the receiver calls         *)
(* recv_message once; then the next connection is served.                  *)
(***************************************************************************)

MaxTextLen == 2

CodePoints == {97, 233, 8364}

RECURSIVE TextsUpTo(_)
TextsUpTo(n) ==
    IF n = 0 THEN {<<>>}
    ELSE TextsUpTo(n - 1) \cup
         {Append(t, c) : t \in {u \in TextsUpTo(n - 1) : Len(u) = n - 1},
                         c \in CodePoints}

FramingPayloads ==
    {Runs(t) : t \in TextsUpTo(MaxTextLen)} \cup
    {<<<<97, MAX_MESSAGE_SIZE - 1>>>>, <<<<97, MAX_MESSAGE_SIZE>>>>,
     <<<<97, MAX_MESSAGE_SIZE + 1>>>>,
     <<<<233, 1>>, <<97, MAX_MESSAGE_SIZE - 2>>>>}

RawHeaders ==
    {pack_u32(0), pack_u32(1), pack_u32(MAX_MESSAGE_SIZE),
     pack_u32(MAX_MESSAGE_SIZE + 1), <<255, 255, 255, 255>>}

CutPoints == {0, 1, 3, 4, 5}

NoText == <<<<-1, 1>>>>

FrFresh(e) ==
    [pc |-> "new", sock |-> [data |-> <<>>, atEnd |-> e], sent |-> NoText,
     declared |-> -1, wrote |-> 0, ret |-> RetNone, consumed |-> 0]

\* the result harness at rest
RtOff == [pc |-> "off", stdout |-> <<>>, stderr |-> <<>>, frame |-> <<>>, ret |-> <<>>]

FrInit ==
    /\ fr \in {FrFresh(e) : e \in {"closed", "timeout"}}
    /\ frPrev = [class |-> "none", ret |-> RetNone]
    /\ rt = RtOff

\* the sender: send_message(sock, p)
FSend(p) ==
    /\ fr.pc = "new"
    /\ LET s == send_message(p) IN
       /\ s.ok
       /\ fr' = [fr EXCEPT !.pc = "sent", !.sent = p,
                           !.declared = RLen(encode_utf8(p)),
                           !.wrote = RLen(s.bytes),
                           !.sock.data = s.bytes]
    /\ UNCHANGED <<frPrev, rt, storeVars, sysVars>>

\* a peer that writes the header h and then m payload bytes
FRaw(h, m) ==
    /\ fr.pc = "new"
    /\ fr' = [fr EXCEPT !.pc = "raw", !.declared = unpack_u32(h), !.wrote = 4 + m,
                        !.sock.data = RCat(Runs(h), Norm(<<<<97, m>>>>))]
    /\ UNCHANGED <<frPrev, rt, storeVars, sysVars>>

\* the stream is closed after only k bytes of what was written got through
FCut(k) ==
    /\ fr.pc \in {"sent", "raw"}
    /\ k < RLen(fr.sock.data)
    /\ fr' = [fr EXCEPT !.pc = "cut", !.wrote = k,
                        !.sock = [data |-> RTake(fr.sock.data, k), atEnd |-> "closed"]]
    /\ UNCHANGED <<frPrev, rt, storeVars, sysVars>>

\* the receiver: recv_message(sock)
FRecv ==
    /\ fr.pc \in {"new", "sent", "raw", "cut"}
    /\ LET r == recv_message(fr.sock) IN
       fr' = [fr EXCEPT !.pc = "done", !.ret = r.ret, !.sock = r.sock,
                        !.consumed = RLen(fr.sock.data) - RLen(r.sock.data)]
    /\ UNCHANGED <<frPrev, rt, storeVars, sysVars>>

\* how the finished call is classified by what was on the wire
FrClass ==
    IF fr.wrote >= 4 /\ fr.declared > MAX_MESSAGE_SIZE THEN "oversized"
    ELSE IF fr.sock.atEnd = "closed" /\ (fr.wrote < 4 \/ fr.wrote < 4 + fr.declared)
         THEN "closed_early"
    ELSE IF fr.sock.atEnd = "timeout" /\ (fr.wrote < 4 \/ fr.wrote < 4 + fr.declared)
         THEN "stalled"
    ELSE "complete"

\* the receiver goes on to its next connection
FNext ==
    /\ fr.pc = "done"
    /\ frPrev' = [class |-> FrClass, ret |-> fr.ret]
    /\ fr' \in {FrFresh(e) : e \in {"closed", "timeout"}}
    /\ UNCHANGED <<rt, storeVars, sysVars>>

FramingNext ==
    \/ \E p \in FramingPayloads : FSend(p)
    \/ \E h \in RawHeaders : \E m \in {0, 1, unpack_u32(h)} :
          m <= MAX_MESSAGE_SIZE + 1 /\ FRaw(h, m)
    \/ \E k \in CutPoints : FCut(k)
    \/ FRecv
    \/ FNext

FrIdle ==
    /\ fr = FrFresh("closed")
    /\ frPrev = [class |-> "none", ret |-> RetNone]
    /\ rt = RtOff

(***************************************************************************)
(* Part 2.  Credential store (server/token_manager.py)                     *)
(*                                                                         *)
(* Text is a tuple of one-character strings.  Every function below runs    *)
(* under db_lock from its first statement to its return, so each is one    *)
(* step: it maps the table (and the generator count) to the new table and  *)
(* the returned value.                                                     *)
(***************************************************************************)

MaxTokens == 3

\* Python's None where a str may stand
None == <<"None">>

TOKEN_PENDING == <<"p", "e", "n", "d", "i", "n", "g">>
TOKEN_APPROVED == <<"a", "p", "p", "r", "o", "v", "e", "d">>
TOKEN_REVOKED == <<"r", "e", "v", "o", "k", "e", "d">>
TOKEN_DENIED == <<"d", "e", "n", "i", "e", "d">>
TOKEN_INVALID == <<"i", "n", "v", "a", "l", "i", "d">>

Hosts == {<<"A">>, <<"B">>}

HexDigits == <<"1", "2", "3", "4", "5", "6", "7", "8", "9", "a", "b", "c", "d", "e", "f">>

generate_token_constant(n) == <<HexDigits[1]>>

\* generate_token(): secrets.token_hex, never the same value twice
generate_token(n) == <<HexDigits[n + 1]>>

NULL == "NULL"

Row(token, status, ip, approved_at, revoked_at) ==
    [token |-> token, status |-> status, ip_address |-> ip,
     approved_at |-> approved_at, revoked_at |-> revoked_at]

Put(table, hostname, row) ==
    [h \in DOMAIN table \cup {hostname} |->
        IF h = hostname THEN row ELSE table[h]]

Without(table, hostname) ==
    [h \in DOMAIN table \ {hostname} |-> table[h]]

request_token_renewing(table, n, hostname, ip_address) ==
    LET new_token == generate_token(n) IN
    IF hostname \in DOMAIN table /\ table[hostname].status = TOKEN_APPROVED
    THEN [db |-> table, gen |-> n, ret |-> <<TRUE, table[hostname].token, TOKEN_APPROVED>>]
    ELSE [db |-> Put(table, hostname, Row(new_token, TOKEN_PENDING, ip_address, NULL, NULL)),
          gen |-> n + 1, ret |-> <<TRUE, new_token, TOKEN_PENDING>>]

request_token_unlocked(table, n, hostname, ip_address) ==
    IF hostname \in DOMAIN table /\ table[hostname].status = TOKEN_APPROVED
    THEN [db |-> table, gen |-> n, ret |-> <<TRUE, table[hostname].token, TOKEN_APPROVED>>]
    ELSE LET token == generate_token(n) IN
         [db |-> Put(table, hostname, Row(token, TOKEN_PENDING, ip_address, NULL, NULL)),
          gen |-> n + 1, ret |-> <<TRUE, token, TOKEN_PENDING>>]

request_token(table, n, hostname, ip_address) ==
    IF hostname \in DOMAIN table
    THEN LET row == table[hostname] IN
         IF row.status = TOKEN_APPROVED
         THEN [db |-> table, gen |-> n, ret |-> <<TRUE, row.token, TOKEN_APPROVED>>]
         ELSE IF row.status = TOKEN_PENDING
         THEN [db |-> table, gen |-> n, ret |-> <<TRUE, row.token, TOKEN_PENDING>>]
         ELSE LET new_token == generate_token(n) IN
              [db |-> Put(table, hostname,
                          Row(new_token, TOKEN_PENDING, ip_address, NULL, NULL)),
               gen |-> n + 1, ret |-> <<TRUE, new_token, TOKEN_PENDING>>]
    ELSE LET token == generate_token(n) IN
         [db |-> Put(table, hostname, Row(token, TOKEN_PENDING, ip_address, NULL, NULL)),
          gen |-> n + 1, ret |-> <<TRUE, token, TOKEN_PENDING>>]

approve_token_restamp(table, hostname) ==
    IF hostname \notin DOMAIN table
    THEN [db |-> table, ret |-> <<FALSE, None>>]
    ELSE LET row == table[hostname] IN
         [db |-> Put(table, hostname,
                     [row EXCEPT !.status = TOKEN_APPROVED, !.approved_at = "ts2"]),
          ret |-> <<TRUE, row.token>>]

approve_token(table, hostname) ==
    IF hostname \notin DOMAIN table
    THEN [db |-> table, ret |-> <<FALSE, None>>]
    ELSE LET row == table[hostname] IN
         IF row.status = TOKEN_APPROVED
         THEN [db |-> table, ret |-> <<TRUE, row.token>>]
         ELSE [db |-> Put(table, hostname,
                          [row EXCEPT !.status = TOKEN_APPROVED, !.approved_at = "ts"]),
               ret |-> <<TRUE, row.token>>]

deny_token_inserting(table, hostname) ==
    IF hostname \in DOMAIN table
    THEN [db |-> Put(table, hostname, [table[hostname] EXCEPT !.status = TOKEN_DENIED]),
          ret |-> TRUE]
    ELSE [db |-> Put(table, hostname, Row(<<>>, TOKEN_DENIED, None, NULL, NULL)),
          ret |-> TRUE]

deny_token(table, hostname) ==
    IF hostname \in DOMAIN table
    THEN [db |-> Put(table, hostname, [table[hostname] EXCEPT !.status = TOKEN_DENIED]),
          ret |-> TRUE]
    ELSE [db |-> table, ret |-> FALSE]

revoke_token(table, hostname) ==
    IF hostname \in DOMAIN table
    THEN [db |-> Put(table, hostname,
                     [table[hostname] EXCEPT !.status = TOKEN_REVOKED, !.revoked_at = "ts"]),
          ret |-> TRUE]
    ELSE [db |-> table, ret |-> FALSE]

add_token_manual_reissuing(table, n, hostname) ==
    LET token == generate_token(n) IN
    [db |-> Put(table, hostname, Row(token, TOKEN_APPROVED, None, "ts", NULL)),
     gen |-> n + 1, ret |-> <<TRUE, token>>]

add_token_manual(table, n, hostname) ==
    IF hostname \in DOMAIN table
    THEN LET row == table[hostname] IN
         IF row.status # TOKEN_APPROVED
         THEN [db |-> Put(table, hostname,
                          [row EXCEPT !.status = TOKEN_APPROVED, !.approved_at = "ts"]),
               gen |-> n, ret |-> <<TRUE, row.token>>]
         ELSE [db |-> table, gen |-> n, ret |-> <<TRUE, row.token>>]
    ELSE LET token == generate_token(n) IN
         [db |-> Put(table, hostname, Row(token, TOKEN_APPROVED, None, "ts", NULL)),
          gen |-> n + 1, ret |-> <<TRUE, token>>]

get_token_by_hostname(table, hostname) ==
    IF hostname \in DOMAIN table
    THEN <<table[hostname].token, table[hostname].status>>
    ELSE <<None, None>>

delete_token_unapproved(table, hostname) ==
    IF hostname \in DOMAIN table /\ table[hostname].status # TOKEN_APPROVED
    THEN [db |-> Without(table, hostname), ret |-> TRUE]
    ELSE [db |-> table, ret |-> FALSE]

delete_token(table, hostname) ==
    IF hostname \in DOMAIN table
    THEN [db |-> Without(table, hostname), ret |-> TRUE]
    ELSE [db |-> table, ret |-> FALSE]

EmptyTable == [h \in {} |-> NULL]

NoCall == [op |-> "none", host |-> <<>>, pre |-> EmptyTable, preGen |-> 0, ret |-> <<>>]

Called(op, hostname, ret) ==
    [op |-> op, host |-> hostname, pre |-> db, preGen |-> gen, ret |-> ret]

StoreInit ==
    /\ db = EmptyTable
    /\ gen = 0
    /\ call = NoCall

IP == <<"i">>

\* a call that runs generate_token() is taken only while the model still
\* has a token to hand out
CanGenerate(n) == n <= MaxTokens

SRequest(h) ==
    /\ LET r == request_token(db, gen, h, IP) IN
       /\ CanGenerate(r.gen)
       /\ db' = r.db
       /\ gen' = r.gen
       /\ call' = Called("request_token", h, r.ret)
    /\ UNCHANGED <<frVars, sysVars>>

SApprove(h) ==
    /\ LET r == approve_token(db, h) IN
       /\ db' = r.db
       /\ call' = Called("approve_token", h, r.ret)
    /\ UNCHANGED <<gen, frVars, sysVars>>

SDeny(h) ==
    /\ LET r == deny_token(db, h) IN
       /\ db' = r.db
       /\ call' = Called("deny_token", h, r.ret)
    /\ UNCHANGED <<gen, frVars, sysVars>>

SRevoke(h) ==
    /\ LET r == revoke_token(db, h) IN
       /\ db' = r.db
       /\ call' = Called("revoke_token", h, r.ret)
    /\ UNCHANGED <<gen, frVars, sysVars>>

SAdd(h) ==
    /\ LET r == add_token_manual(db, gen, h) IN
       /\ CanGenerate(r.gen)
       /\ db' = r.db
       /\ gen' = r.gen
       /\ call' = Called("add_token_manual", h, r.ret)
    /\ UNCHANGED <<frVars, sysVars>>

SLookup(h) ==
    /\ call' = Called("get_token_by_hostname", h, get_token_by_hostname(db, h))
    /\ UNCHANGED <<db, gen, frVars, sysVars>>

SDelete(h) ==
    /\ LET r == delete_token(db, h) IN
       /\ db' = r.db
       /\ call' = Called("delete_token", h, r.ret)
    /\ UNCHANGED <<gen, frVars, sysVars>>

StoreNext ==
    \E h \in Hosts :
        \/ SRequest(h)
        \/ SApprove(h)
        \/ SDeny(h)
        \/ SRevoke(h)
        \/ SAdd(h)
        \/ SLookup(h)
        \/ SDelete(h)

(***************************************************************************)
(* Part 3.  Text (Python str operations used by the handlers)              *)
(***************************************************************************)

StartsWith(s, p) == Len(s) >= Len(p) /\ SubSeq(s, 1, Len(p)) = p

\* s.find(sep, start - 1) + 1
FindFrom(s, sep, start) ==
    LET at == {i \in start..(Len(s) - Len(sep) + 1) : SubSeq(s, i, i + Len(sep) - 1) = sep}
    IN IF at = {} THEN 0 ELSE CHOOSE i \in at : \A j \in at : i <= j

\* the fields of s from position start on, cut at the first maxsplit
\* occurrences of sep
RECURSIVE SplitFrom(_, _, _, _)
SplitFrom(s, sep, maxsplit, start) ==
    LET i == FindFrom(s, sep, start) IN
    IF maxsplit = 0 \/ i = 0 THEN <<SubSeq(s, start, Len(s))>>
    ELSE <<SubSeq(s, start, i - 1)>> \o SplitFrom(s, sep, maxsplit - 1, i + Len(sep))

\* s.split(sep, maxsplit); maxsplit = -1 splits at every sep
Split(s, sep, maxsplit) == SplitFrom(s, sep, maxsplit, 1)

NonAscii == {"é"}

IsAscii(s) == \A i \in 1..Len(s) : s[i] \notin NonAscii

Colon == <<":">>

MSG_REGISTER == <<"R", "E", "G", "I", "S", "T", "E", "R">>
MSG_CMD == <<"C", "M", "D">>
MSG_RESULT == <<"R", "E", "S", "U", "L", "T">>
MSG_TOKEN_REQUEST == <<"T", "O", "K", "E", "N", "_", "R", "E", "Q", "U", "E", "S", "T">>
MSG_TOKEN_STATUS == <<"T", "O", "K", "E", "N", "_", "S", "T", "A", "T", "U", "S">>
STATUS_CHECK == <<"s", "t", "a", "t", "u", "s", "_", "c", "h", "e", "c", "k">>
DELETED == <<"d", "e", "l", "e", "t", "e", "d">>
DELIM == <<"|", "|", "|">>

\* f"{a}:{b}" and f"{a}:{b}:{c}"
Msg2(a, b) == a \o Colon \o b
Msg3(a, b, c) == a \o Colon \o b \o Colon \o c

(***************************************************************************)
(* Part 4.  Sockets                                                        *)
(*                                                                         *)
(* A connection carries whole frames.  toSrv holds the frames the peer has *)
(* written and the server has not read; out is every frame the server has  *)
(* written, of which the peer has read the first rd.  A frame is its       *)
(* payload text; recv_message returns None for a frame of no bytes, as it  *)
(* does at byte level (FramingLemma).                                      *)
(***************************************************************************)

MaxConns == 2
MaxPolls == 1
MaxDispatch == 2
MaxKicks == 1

Conns == 1..MaxConns

\* client_handler.clients_lock, kept in lock next to the locks of the entries
clients_lock == 0

\* clients_lock can be acquired
RegistryFree == lock[clients_lock] = "free"

\* the endpoint machines that connect, and that the operator names
Endpoints == {<<"A">>}

Threads == {"operator", "aux"}

\* recv_message(client_socket) once it returns without timing out: the next
\* frame, or None when the peer has closed
ServerRecv(cn) ==
    IF cn.toSrv # <<>>
    THEN IF Head(cn.toSrv) = <<>> THEN None ELSE Head(cn.toSrv)
    ELSE None

ServerCanRecv(cn) == cn.toSrv # <<>> \/ ~cn.peerOpen

\* the socket after send_message(client_socket, text) on the server side
Sent(cn, text) == IF cn.srvOpen THEN [cn EXCEPT !.out = Append(@, text)] ELSE cn

RECURSIVE SentAll(_, _)
SentAll(cn, texts) ==
    IF texts = <<>> THEN cn ELSE SentAll(Sent(cn, Head(texts)), Tail(texts))

\* the values send_message may return for a server-side send: sendall fails
\* on a closed socket, and may or may not fail once the peer is gone
SendResults(cn) ==
    IF ~cn.srvOpen THEN {FALSE}
    ELSE IF cn.peerOpen THEN {TRUE} ELSE {TRUE, FALSE}

\* client_socket.close() and the end of the handler thread
Closed_half(cn) == [cn EXCEPT !.toSrv = <<>>, !.hpc = "closed"]

Closed(cn) == [cn EXCEPT !.srvOpen = FALSE, !.toSrv = <<>>, !.hpc = "closed"]

\* recv_message(sock) on the peer's side
PeerCanRecv(cn) == cn.rd < Len(cn.out) \/ ~cn.srvOpen

PeerRecv(cn) ==
    IF cn.rd < Len(cn.out)
    THEN IF cn.out[cn.rd + 1] = <<>> THEN None ELSE cn.out[cn.rd + 1]
    ELSE None

PeerRead(cn) == IF cn.rd < Len(cn.out) THEN [cn EXCEPT !.rd = @ + 1] ELSE cn

\* send_message(sock, text) on the peer's side
PeerSent(cn, text) ==
    IF cn.peerOpen /\ cn.srvOpen THEN [cn EXCEPT !.toSrv = Append(@, text)] ELSE cn

\* sock.close() on the peer's side
PeerClosed(cn) == [cn EXCEPT !.peerOpen = FALSE, !.cpc = "gone"]

NoConn ==
    [hpc |-> "free", hostname |-> None, srvOpen |-> FALSE, peerOpen |-> FALSE,
     toSrv |-> <<>>, out |-> <<>>, rd |-> 0, cpc |-> "none", chost |-> None,
     polls |-> 0, repo |-> FALSE]

NoFile == None

(***************************************************************************)
(* Part 5.  Session handler (server/client_handler.py)                     *)
(***************************************************************************)

\* secrets.compare_digest(a, b) on two str: TypeError unless both are ASCII
compare_digest(a, b) ==
    IF IsAscii(a) /\ IsAscii(b) THEN [raised |-> FALSE, eq |-> a = b]
    ELSE [raised |-> TRUE, eq |-> FALSE]

\* the frames handle_registration writes on success, before returning hostname
RegistrationSuccessFrames == <<>>

handle_registration_lax(reg_message, table) ==
    LET parts == Split(reg_message, Colon, 2) IN
    IF Len(parts) # 3
    THEN [outcome |-> "reject", frames |-> <<>>, hostname |-> None]
    ELSE IF parts[2] \in DOMAIN table /\ table[parts[2]].token = parts[3]
    THEN [outcome |-> "proceed", hostname |-> parts[2],
          frames |-> RegistrationSuccessFrames]
    ELSE [outcome |-> "reject", hostname |-> parts[2],
          frames |-> <<Msg2(MSG_TOKEN_STATUS, TOKEN_INVALID)>>]

\* handle_registration up to the registry insert: what it decides on the
\* result of get_token_by_hostname.  outcome is "reject" (reply frames sent,
\* socket closed, None returned), "raise" (exception leaves the function) or
\* "proceed" (token valid, continue to the insert)
handle_registration(reg_message, table) ==
    LET decide(parts) ==
          IF Len(parts) # 3
          THEN [outcome |-> "reject", frames |-> <<>>, hostname |-> None]
          ELSE
            LET hostname == parts[2]
                client_token == parts[3]
                got == get_token_by_hostname(table, hostname)
                stored_token == got[1]
                token_status == got[2]
                invalid == [outcome |-> "reject", hostname |-> hostname,
                            frames |-> <<Msg2(MSG_TOKEN_STATUS, TOKEN_INVALID)>>]
            IN
            IF stored_token # None /\ stored_token # <<>>
               /\ token_status # None /\ token_status # <<>>
            THEN LET cmp == compare_digest(stored_token, client_token) IN
                 IF cmp.raised
                 THEN [outcome |-> "raise", frames |-> <<>>, hostname |-> hostname]
                 ELSE IF cmp.eq
                 THEN IF token_status = TOKEN_REVOKED
                      THEN [outcome |-> "reject", hostname |-> hostname,
                            frames |-> <<Msg2(MSG_TOKEN_STATUS, TOKEN_REVOKED)>>]
                      ELSE IF token_status = TOKEN_APPROVED
                      THEN [outcome |-> "proceed", hostname |-> hostname,
                            frames |-> RegistrationSuccessFrames]
                      ELSE invalid
                 ELSE invalid
            ELSE invalid
    IN \* parts = reg_message.split(':', 2), evaluated once
       CHOOSE d \in {decide(parts) : parts \in {Split(reg_message, Colon, 2)}} : TRUE

StatusReply_open(token, status) ==
    IF status = TOKEN_APPROVED
    THEN [frame |-> Msg3(MSG_TOKEN_STATUS, TOKEN_APPROVED, token), again |-> TRUE]
    ELSE IF status = TOKEN_DENIED
    THEN [frame |-> Msg2(MSG_TOKEN_STATUS, TOKEN_DENIED), again |-> FALSE]
    ELSE IF status = TOKEN_PENDING
    THEN [frame |-> Msg2(MSG_TOKEN_STATUS, TOKEN_PENDING), again |-> TRUE]
    ELSE [frame |-> Msg2(MSG_TOKEN_STATUS, TOKEN_INVALID), again |-> FALSE]

\* the reply to a status_check, and whether the poll loop goes on after it
StatusReply_leaking(token, status) ==
    IF status = TOKEN_APPROVED
    THEN [frame |-> Msg3(MSG_TOKEN_STATUS, TOKEN_APPROVED, token), again |-> FALSE]
    ELSE IF status = TOKEN_DENIED
    THEN [frame |-> Msg2(MSG_TOKEN_STATUS, TOKEN_DENIED), again |-> FALSE]
    ELSE IF status = TOKEN_PENDING
    THEN [frame |-> Msg3(MSG_TOKEN_STATUS, TOKEN_PENDING, token), again |-> TRUE]
    ELSE [frame |-> Msg2(MSG_TOKEN_STATUS, TOKEN_INVALID), again |-> FALSE]

StatusReply(token, status) ==
    IF status = TOKEN_APPROVED
    THEN [frame |-> Msg3(MSG_TOKEN_STATUS, TOKEN_APPROVED, token), again |-> FALSE]
    ELSE IF status = TOKEN_DENIED
    THEN [frame |-> Msg2(MSG_TOKEN_STATUS, TOKEN_DENIED), again |-> FALSE]
    ELSE IF status = TOKEN_PENDING
    THEN [frame |-> Msg2(MSG_TOKEN_STATUS, TOKEN_PENDING), again |-> TRUE]
    ELSE [frame |-> Msg2(MSG_TOKEN_STATUS, TOKEN_INVALID), again |-> FALSE]

IsStatusCheck_never(parts) == FALSE

IsStatusCheck(parts) == Len(parts) > 2 /\ parts[3] = STATUS_CHECK

HFirstOther_open(c) ==
    /\ conn[c].hpc = "first"
    /\ ServerCanRecv(conn[c])
    /\ LET first_message == ServerRecv(conn[c]) IN
       /\ \/ first_message = None
          \/ ~StartsWith(first_message, MSG_TOKEN_REQUEST)
             /\ ~StartsWith(first_message, MSG_REGISTER)
       /\ conn' = [conn EXCEPT ![c] = [@ EXCEPT !.toSrv = <<>>, !.hpc = "closed"]]
    /\ UNCHANGED <<frVars, storeVars, clients, lock, notif, nconn, tokenFile, thr,
                   opc, budget>>

\* handle_client, first message absent or of neither kind: close, return
HFirstOther(c) ==
    /\ conn[c].hpc = "first"
    /\ ServerCanRecv(conn[c])
    /\ LET first_message == ServerRecv(conn[c]) IN
       /\ \/ first_message = None
          \/ ~StartsWith(first_message, MSG_TOKEN_REQUEST)
             /\ ~StartsWith(first_message, MSG_REGISTER)
       /\ conn' = [conn EXCEPT ![c] = Closed(@)]
    /\ UNCHANGED <<frVars, storeVars, clients, lock, notif, nconn, tokenFile, thr,
                   opc, budget>>

\* handle_client -> handle_token_request, from the first message to the
\* entry of the poll loop (or to the return that closes the socket)
HFirstTokenRequest(c) ==
    /\ conn[c].hpc = "first"
    /\ ServerCanRecv(conn[c])
    /\ LET request_message == ServerRecv(conn[c])
           cn == [conn[c] EXCEPT !.toSrv = Tail(@)]
       IN
       /\ request_message # None
       /\ StartsWith(request_message, MSG_TOKEN_REQUEST)
       /\ LET parts == Split(request_message, Colon, 2) IN
          IF Len(parts) < 2
          THEN /\ conn' = [conn EXCEPT ![c] = Closed(cn)]
               /\ UNCHANGED <<storeVars, notif>>
          ELSE
            LET hostname == parts[2]
                ip_address == IF Len(parts) < 3 THEN IP ELSE parts[3]
            IN
            IF IsStatusCheck(parts)
            THEN LET got == get_token_by_hostname(db, hostname) IN
                 /\ conn' = [conn EXCEPT ![c] =
                        Closed(Sent([cn EXCEPT !.hostname = hostname],
                                    StatusReply(got[1], got[2]).frame))]
                 /\ UNCHANGED <<storeVars, notif>>
            ELSE LET r == request_token(db, gen, hostname, ip_address)
                     token == r.ret[2]
                     status == r.ret[3]
                 IN
                 /\ CanGenerate(r.gen)
                 /\ db' = r.db
                 /\ gen' = r.gen
                 /\ call' = call
                 /\ IF status = TOKEN_APPROVED
                    THEN /\ conn' = [conn EXCEPT ![c] =
                                Sent([cn EXCEPT !.hostname = hostname, !.hpc = "poll"],
                                     Msg3(MSG_TOKEN_STATUS, TOKEN_APPROVED, token))]
                         /\ notif' = notif
                    ELSE /\ conn' = [conn EXCEPT ![c] =
                                Sent([cn EXCEPT !.hostname = hostname, !.hpc = "poll"],
                                     Msg2(MSG_TOKEN_STATUS, TOKEN_PENDING))]
                         /\ notif' = Append(notif, hostname)
    /\ UNCHANGED <<frVars, clients, lock, nconn, tokenFile, thr, opc, budget>>

\* handle_token_request, one turn of the poll loop
HPoll(c) ==
    /\ conn[c].hpc = "poll"
    /\ ServerCanRecv(conn[c])
    /\ LET message == ServerRecv(conn[c])
           cn == [conn[c] EXCEPT !.toSrv = IF @ = <<>> THEN @ ELSE Tail(@)]
       IN
       IF message = None
       THEN conn' = [conn EXCEPT ![c] = Closed(cn)]
       ELSE IF StartsWith(message, MSG_TOKEN_REQUEST)
       THEN LET parts == Split(message, Colon, 2) IN
            IF IsStatusCheck(parts)
            THEN LET got == get_token_by_hostname(db, cn.hostname)
                     reply == StatusReply(got[1], got[2])
                 IN conn' = [conn EXCEPT ![c] =
                        IF reply.again THEN Sent(cn, reply.frame)
                        ELSE Closed(Sent(cn, reply.frame))]
            ELSE conn' = [conn EXCEPT ![c] = cn]
       ELSE conn' = [conn EXCEPT ![c] = Closed(cn)]
    /\ UNCHANGED <<frVars, storeVars, clients, lock, notif, nconn, tokenFile, thr,
                   opc, budget>>

\* handle_client -> handle_registration, from the first message to the
\* decision on the stored token
HFirstRegister(c) ==
    /\ conn[c].hpc = "first"
    /\ ServerCanRecv(conn[c])
    /\ LET reg_message == ServerRecv(conn[c])
           cn == [conn[c] EXCEPT !.toSrv = Tail(@)]
       IN
       /\ reg_message # None
       /\ ~StartsWith(reg_message, MSG_TOKEN_REQUEST)
       /\ StartsWith(reg_message, MSG_REGISTER)
       /\ LET d == handle_registration(reg_message, db) IN
          conn' = [conn EXCEPT ![c] =
              IF d.outcome = "proceed"
              THEN SentAll([cn EXCEPT !.hostname = d.hostname, !.hpc = "auth"], d.frames)
              ELSE Closed(SentAll([cn EXCEPT !.hostname = d.hostname], d.frames))]
    /\ UNCHANGED <<frVars, storeVars, clients, lock, notif, nconn, tokenFile, thr,
                   opc, budget>>

HInsert_keeping(c) ==
    /\ conn[c].hpc = "auth"
    /\ RegistryFree
    /\ clients' = IF conn[c].hostname \in DOMAIN clients THEN clients
                  ELSE Put(clients, conn[c].hostname, c)
    /\ lock' = [lock EXCEPT ![c] = "free"]
    /\ conn' = [conn EXCEPT ![c].hpc = "idle"]
    /\ UNCHANGED <<frVars, storeVars, notif, nconn, tokenFile, thr, opc, budget>>

\* handle_registration: with clients_lock: clients[hostname] = {...}; then
\* return hostname, and handle_client enters its sleep loop
HInsert(c) ==
    /\ conn[c].hpc = "auth"
    /\ RegistryFree
    /\ clients' = Put(clients, conn[c].hostname, c)
    /\ lock' = [lock EXCEPT ![c] = "free"]
    /\ conn' = [conn EXCEPT ![c].hpc = "idle"]
    /\ UNCHANGED <<frVars, storeVars, notif, nconn, tokenFile, thr, opc, budget>>

\* handle_client: while True: time.sleep(60)
HSleep(c) ==
    /\ conn[c].hpc = "idle"
    /\ UNCHANGED vars

\* handle_client: an exception in the handler's thread is caught and logged,
\* and the finally block runs: with clients_lock, if hostname and hostname in
\* clients: del clients[hostname]; then client_socket.close().  The local
\* hostname of handle_client is set once handle_registration has returned
HRaise(c) ==
    /\ conn[c].hpc \in {"first", "poll", "auth", "idle"}
    /\ RegistryFree
    /\ LET hostname == IF conn[c].hpc = "idle" THEN conn[c].hostname ELSE None IN
       clients' = IF hostname # None /\ hostname \in DOMAIN clients
                  THEN Without(clients, hostname)
                  ELSE clients
    /\ conn' = [conn EXCEPT ![c] = Closed(@)]
    /\ UNCHANGED <<frVars, storeVars, lock, notif, nconn, tokenFile, thr, opc, budget>>

(***************************************************************************)
(* Part 6.  The endpoint (client/client.py)                                *)
(***************************************************************************)

\* execute_command(command): the remote execution wrapper, here an echo
execute_command(command) == <<command, <<>>>>

\* a connection the listener has accepted and handed to a handler thread, the
\* peer having written its first frame; repo tells that the peer runs
\* connect_and_run of client.py rather than some other program
NewConn(first, pc, h, repo) ==
    [hpc |-> "first", hostname |-> None, srvOpen |-> TRUE, peerOpen |-> TRUE,
     toSrv |-> <<first>>, out |-> <<>>, rd |-> 0, cpc |-> pc, chost |-> h,
     polls |-> 0, repo |-> repo]

\* a peer that is no endpoint connects and sends one frame that is neither
\* a registration nor a token request, or one of these with too few fields,
\* or a frame of no bytes, or closes without sending
Probes == {None, <<"x">>, <<>>, MSG_REGISTER \o <<":", "A">>, MSG_TOKEN_REQUEST}

\* a peer whose first message is a status check of a hostname
StatusChecks == {Msg3(MSG_TOKEN_REQUEST, h, STATUS_CHECK) : h \in Hosts}

CProbe(first) ==
    /\ nconn < MaxConns
    /\ nconn' = nconn + 1
    /\ conn' = [conn EXCEPT ![nconn + 1] =
                   [NewConn(first, "gone", None, FALSE) EXCEPT
                       !.peerOpen = FALSE,
                       !.toSrv = IF first = None THEN <<>> ELSE @]]
    /\ UNCHANGED <<frVars, storeVars, clients, lock, notif, tokenFile, thr, opc, budget>>

\* connect_and_run without a token file: request_token_from_server connects
\* and sends TOKEN_REQUEST:hostname:ip; the listener accepts and starts a
\* handler thread
CRequestToken(h) ==
    /\ nconn < MaxConns
    /\ tokenFile[h] = NoFile
    /\ nconn' = nconn + 1
    /\ conn' = [conn EXCEPT ![nconn + 1] =
                   NewConn(Msg3(MSG_TOKEN_REQUEST, h, IP), "t_first", h, TRUE)]
    /\ UNCHANGED <<frVars, storeVars, clients, lock, notif, tokenFile, thr, opc, budget>>

\* texts a user may put into client_token.txt that are no token of the server
ForeignTokens == {<<"0">>, <<"é">>}

\* the user of an endpoint without a token file writes one by hand: the
\* token the operator read out (cli.add_token_manual prints it), or some
\* other text
CWriteFile(h, foreign) ==
    /\ tokenFile[h] = NoFile
    /\ \/ /\ foreign = None
          /\ h \in DOMAIN db
          /\ tokenFile' = [tokenFile EXCEPT ![h] = db[h].token]
       \/ /\ foreign # None
          /\ tokenFile' = [tokenFile EXCEPT ![h] = foreign]
    /\ UNCHANGED <<frVars, storeVars, clients, lock, notif, conn, nconn, thr, opc, budget>>

\* the status and the token carried by a TOKEN_STATUS response
StatusParts(response) == Split(Split(response, Colon, 1)[2], Colon, 1)

\* request_token_from_server: the initial response
CTokenFirstReply(c) ==
    /\ conn[c].cpc = "t_first"
    /\ PeerCanRecv(conn[c])
    /\ LET response == PeerRecv(conn[c])
           cn == PeerRead(conn[c])
           h == cn.chost
       IN
       IF response = None \/ ~StartsWith(response, MSG_TOKEN_STATUS)
          \/ Len(Split(response, Colon, 1)) < 2
       THEN conn' = [conn EXCEPT ![c] = PeerClosed(cn)] /\ UNCHANGED tokenFile
       ELSE LET status_parts == StatusParts(response)
                status == status_parts[1]
            IN
            IF status = TOKEN_APPROVED
            THEN /\ conn' = [conn EXCEPT ![c] = PeerClosed(cn)]
                 /\ tokenFile' = IF Len(status_parts) > 1
                                 THEN [tokenFile EXCEPT ![h] = status_parts[2]]
                                 ELSE tokenFile
            ELSE IF status = TOKEN_PENDING
            THEN conn' = [conn EXCEPT ![c] = [cn EXCEPT !.cpc = "t_poll"]]
                 /\ UNCHANGED tokenFile
            ELSE conn' = [conn EXCEPT ![c] = PeerClosed(cn)] /\ UNCHANGED tokenFile
    /\ UNCHANGED <<frVars, storeVars, clients, lock, notif, nconn, thr, opc, budget>>

\* request_token_from_server: one poll is sent, or max_polls is reached
CPollSend(c) ==
    /\ conn[c].cpc = "t_poll"
    /\ conn' = [conn EXCEPT ![c] =
           IF @.polls < MaxPolls
           THEN PeerSent([@ EXCEPT !.polls = @ + 1, !.cpc = "t_wait"],
                         Msg3(MSG_TOKEN_REQUEST, @.chost, STATUS_CHECK))
           ELSE PeerClosed(@)]
    /\ UNCHANGED <<frVars, storeVars, clients, lock, notif, nconn, tokenFile, thr,
                   opc, budget>>

\* frames a polling peer that is not client.py may send in place of a
\* status_check: another kind of frame, a TOKEN_REQUEST of two fields, and a
\* TOKEN_REQUEST whose third field is an address
PollOthers == {"other", "two fields", "address"}

PollOther(kind, h) ==
    IF kind = "other" THEN <<"x">>
    ELSE IF kind = "two fields" THEN Msg2(MSG_TOKEN_REQUEST, h)
    ELSE Msg3(MSG_TOKEN_REQUEST, h, IP)

\* such a peer sends one of them and waits for the answer
CPollOther(c, kind) ==
    /\ conn[c].cpc = "t_poll"
    /\ conn[c].polls < MaxPolls
    /\ conn' = [conn EXCEPT ![c] =
           PeerSent([@ EXCEPT !.polls = @ + 1, !.cpc = "t_wait", !.repo = FALSE],
                    PollOther(kind, @.chost))]
    /\ UNCHANGED <<frVars, storeVars, clients, lock, notif, nconn, tokenFile, thr,
                   opc, budget>>

\* request_token_from_server: the response to a poll
CPollReply(c) ==
    /\ conn[c].cpc = "t_wait"
    /\ PeerCanRecv(conn[c])
    /\ LET response == PeerRecv(conn[c])
           cn == PeerRead(conn[c])
           h == cn.chost
           again == [cn EXCEPT !.cpc = "t_poll"]
       IN
       IF response = None
       THEN conn' = [conn EXCEPT ![c] = PeerClosed(cn)] /\ UNCHANGED tokenFile
       ELSE IF StartsWith(response, MSG_TOKEN_STATUS)
       THEN LET status_parts == StatusParts(response)
                status == status_parts[1]
            IN
            IF status = TOKEN_APPROVED /\ Len(status_parts) > 1
            THEN /\ conn' = [conn EXCEPT ![c] = PeerClosed(cn)]
                 /\ tokenFile' = [tokenFile EXCEPT ![h] = status_parts[2]]
            ELSE IF status = TOKEN_DENIED
            THEN conn' = [conn EXCEPT ![c] = PeerClosed(cn)] /\ UNCHANGED tokenFile
            ELSE conn' = [conn EXCEPT ![c] = again] /\ UNCHANGED tokenFile
       ELSE conn' = [conn EXCEPT ![c] = again] /\ UNCHANGED tokenFile
    /\ UNCHANGED <<frVars, storeVars, clients, lock, notif, nconn, thr, opc, budget>>

\* connect_and_run with a token file: connect_to_server connects and sends
\* REGISTER:hostname:token, then waits for the authentication response
\* (waits = TRUE).  A peer with waits = FALSE is another program speaking the
\* protocol: it sends the same registration and goes straight to the command
\* loop of main_loop.
CRegister(h, waits) ==
    /\ nconn < MaxConns
    /\ tokenFile[h] # NoFile
    /\ nconn' = nconn + 1
    /\ conn' = [conn EXCEPT ![nconn + 1] =
                   NewConn(Msg3(MSG_REGISTER, h, tokenFile[h]),
                           IF waits THEN "r_wait" ELSE "main", h, waits)]
    /\ UNCHANGED <<frVars, storeVars, clients, lock, notif, tokenFile, thr, opc, budget>>

\* connect_to_server: the authentication response
CAuthReply(c) ==
    /\ conn[c].cpc = "r_wait"
    /\ PeerCanRecv(conn[c])
    /\ LET response == PeerRecv(conn[c])
           cn == PeerRead(conn[c])
           h == cn.chost
       IN
       IF response = None \/ ~StartsWith(response, MSG_TOKEN_STATUS)
          \/ Len(Split(response, Colon, 1)) < 2
       THEN conn' = [conn EXCEPT ![c] = PeerClosed(cn)] /\ UNCHANGED tokenFile
       ELSE LET status == Split(response, Colon, 1)[2] IN
            IF status = TOKEN_APPROVED
            THEN conn' = [conn EXCEPT ![c] = [cn EXCEPT !.cpc = "main"]]
                 /\ UNCHANGED tokenFile
            ELSE IF status = TOKEN_INVALID
            THEN /\ conn' = [conn EXCEPT ![c] = PeerClosed(cn)]
                 /\ tokenFile' = [tokenFile EXCEPT ![h] = NoFile]
            ELSE conn' = [conn EXCEPT ![c] = PeerClosed(cn)] /\ UNCHANGED tokenFile
    /\ UNCHANGED <<frVars, storeVars, clients, lock, notif, nconn, thr, opc, budget>>

\* connect_to_server: socket.timeout after 10 s without a response.  The 10 s
\* outlast the handler's work on the registration: the timeout fires only
\* when the handler has gone to sleep without writing anything
CAuthTimeout(c) ==
    /\ conn[c].cpc = "r_wait"
    /\ conn[c].hpc = "idle"
    /\ ~PeerCanRecv(conn[c])
    /\ conn' = [conn EXCEPT ![c] = PeerClosed(@)]
    /\ UNCHANGED <<frVars, storeVars, clients, lock, notif, nconn, tokenFile, thr,
                   opc, budget>>

\* main_loop: one received message
CMain(c) ==
    /\ conn[c].cpc = "main"
    /\ PeerCanRecv(conn[c])
    /\ LET message == PeerRecv(conn[c])
           cn == PeerRead(conn[c])
           h == cn.chost
       IN
       IF message = None
       THEN conn' = [conn EXCEPT ![c] = PeerClosed(cn)] /\ UNCHANGED tokenFile
       ELSE IF StartsWith(message, MSG_TOKEN_STATUS)
       THEN LET status_parts == Split(message, Colon, 1) IN
            IF Len(status_parts) > 1 /\ status_parts[2] = TOKEN_REVOKED
            THEN conn' = [conn EXCEPT ![c] = PeerClosed(cn)] /\ UNCHANGED tokenFile
            ELSE IF Len(status_parts) > 1 /\ status_parts[2] = DELETED
            THEN /\ conn' = [conn EXCEPT ![c] = PeerClosed(cn)]
                 /\ tokenFile' = [tokenFile EXCEPT ![h] = NoFile]
            ELSE conn' = [conn EXCEPT ![c] = cn] /\ UNCHANGED tokenFile
       ELSE IF StartsWith(message, MSG_CMD)
       THEN LET command == Split(message, Colon, 1)[2]
                res == execute_command(command)
                result == MSG_RESULT \o Colon \o res[1] \o DELIM \o res[2]
            IN conn' = [conn EXCEPT ![c] = PeerSent(cn, result)] /\ UNCHANGED tokenFile
       ELSE conn' = [conn EXCEPT ![c] = cn] /\ UNCHANGED tokenFile
    /\ UNCHANGED <<frVars, storeVars, clients, lock, notif, nconn, thr, opc, budget>>

\* what a peer that is not client.py may write in answer to a command: a
\* frame without the RESULT tag, the tag with nothing after it, or a frame
\* whose tag is longer than RESULT
OtherReplies == {<<"x">>, MSG_RESULT, MSG_RESULT \o <<"S", ":", "o">>}

\* such a peer reads a command and answers it
COther(c, reply) ==
    /\ conn[c].cpc = "main"
    /\ ~conn[c].repo
    /\ PeerCanRecv(conn[c])
    /\ LET message == PeerRecv(conn[c])
           cn == PeerRead(conn[c])
       IN
       /\ message # None
       /\ StartsWith(message, MSG_CMD)
       /\ conn' = [conn EXCEPT ![c] = PeerSent(cn, reply)]
    /\ UNCHANGED <<frVars, storeVars, clients, lock, notif, nconn, tokenFile, thr,
                   opc, budget>>

\* the endpoint process ends, or its network goes away, while in main_loop
CAbort(c) ==
    /\ conn[c].cpc = "main"
    /\ conn' = [conn EXCEPT ![c] = PeerClosed(@)]
    /\ UNCHANGED <<frVars, storeVars, clients, lock, notif, nconn, tokenFile, thr,
                   opc, budget>>

(***************************************************************************)
(* Part 7.  Dispatcher (client_handler.send_command_to_client)             *)
(***************************************************************************)

Commands == {<<"x">>}

\* an error text, kept whole
Err(text) == <<text>>

Idle == [pc |-> "idle", hostname |-> None, sock |-> 0, command |-> None,
         ret |-> <<None, None>>]

LockFree_always(c) == TRUE

\* socket_lock can be acquired
LockFree(c) == lock[c] = "free"

DLookup_silent(t, hostname, command) ==
    /\ thr[t].pc = "idle"
    /\ t = "operator" => opc.pc = "idle"
    /\ RegistryFree
    /\ budget.dispatch < MaxDispatch
    /\ budget' = [budget EXCEPT !.dispatch = @ + 1]
    /\ IF hostname \notin DOMAIN clients
       THEN thr' = [thr EXCEPT ![t] = [Idle EXCEPT !.ret = <<None, Err("")>>]]
       ELSE thr' = [thr EXCEPT ![t] =
                [pc |-> "acquire", hostname |-> hostname, sock |-> clients[hostname],
                 command |-> command, ret |-> thr[t].ret]]
    /\ UNCHANGED <<frVars, storeVars, clients, lock, notif, conn, nconn, tokenFile, opc>>

DLookup_nested(t, hostname, command) ==
    /\ thr[t].pc = "idle"
    /\ t = "operator" => opc.pc = "idle"
    /\ RegistryFree
    /\ budget.dispatch < MaxDispatch
    /\ budget' = [budget EXCEPT !.dispatch = @ + 1]
    /\ IF hostname \notin DOMAIN clients
       THEN /\ thr' = [thr EXCEPT ![t] =
                [Idle EXCEPT !.ret = <<None, Err("Client not found or not authenticated")>>]]
            /\ lock' = lock
       ELSE /\ thr' = [thr EXCEPT ![t] =
                [pc |-> "acquire", hostname |-> hostname, sock |-> clients[hostname],
                 command |-> command, ret |-> thr[t].ret]]
            /\ lock' = [lock EXCEPT ![clients_lock] = t]
    /\ UNCHANGED <<frVars, storeVars, clients, notif, conn, nconn, tokenFile, opc>>

\* with clients_lock: look the hostname up
DLookup(t, hostname, command) ==
    /\ thr[t].pc = "idle"
    /\ t = "operator" => opc.pc = "idle"
    /\ RegistryFree
    /\ budget.dispatch < MaxDispatch
    /\ budget' = [budget EXCEPT !.dispatch = @ + 1]
    /\ IF hostname \notin DOMAIN clients
       THEN thr' = [thr EXCEPT ![t] =
                [Idle EXCEPT !.ret = <<None, Err("Client not found or not authenticated")>>]]
       ELSE thr' = [thr EXCEPT ![t] =
                [pc |-> "acquire", hostname |-> hostname, sock |-> clients[hostname],
                 command |-> command, ret |-> thr[t].ret]]
    /\ UNCHANGED <<frVars, storeVars, clients, lock, notif, conn, nconn, tokenFile, opc>>

\* with socket_lock:
DAcquire(t) ==
    /\ thr[t].pc = "acquire"
    /\ LockFree(thr[t].sock)
    /\ lock' = [lock EXCEPT ![thr[t].sock] = t]
    /\ thr' = [thr EXCEPT ![t].pc = "send"]
    /\ UNCHANGED <<frVars, storeVars, clients, notif, conn, nconn, tokenFile, opc, budget>>

Return(t, ret) == [Idle EXCEPT !.ret = ret]

\* send_message(client_socket, f"{MSG_CMD}:{command}")
DSend(t) ==
    /\ thr[t].pc = "send"
    /\ LET c == thr[t].sock IN
       \E ok \in SendResults(conn[c]) :
          /\ conn' = [conn EXCEPT ![c] = Sent(@, Msg2(MSG_CMD, thr[t].command))]
          /\ IF ok
             THEN thr' = [thr EXCEPT ![t].pc = "recv"] /\ UNCHANGED lock
             ELSE /\ thr' = [thr EXCEPT ![t] = Return(t, <<None, Err("Failed to send command")>>)]
                  /\ lock' = [lock EXCEPT ![c] = "free"]
    /\ UNCHANGED <<frVars, storeVars, clients, notif, nconn, tokenFile, opc, budget>>

ParseResponse_unguarded(response) ==
    IF response = None
    THEN <<None, Err("No response from client (may be disconnected)")>>
    ELSE IF ~StartsWith(response, MSG_RESULT)
    THEN <<None, Err("Invalid response format")>>
    ELSE LET fields == Split(response, Colon, 1) IN
         IF Len(fields) < 2
         THEN <<<<>>, <<>>>>
         ELSE LET parts == Split(fields[2], DELIM, -1)
              IN <<parts[1], IF Len(parts) > 1 THEN parts[2] ELSE <<>>>>

\* what send_command_to_client returns for a received response.  A response
\* without ':' makes split(':', 1)[1] raise IndexError, which the last
\* except clause turns into the returned error text
ParseResponse(response) ==
    IF response = None
    THEN <<None, Err("No response from client (may be disconnected)")>>
    ELSE IF ~StartsWith(response, MSG_RESULT)
    THEN <<None, Err("Invalid response format")>>
    ELSE LET fields == Split(response, Colon, 1) IN
         IF Len(fields) < 2
         THEN <<None, Err("Error: list index out of range")>>
         ELSE LET result_data == fields[2]
                  parts == Split(result_data, DELIM, -1)
              IN <<parts[1], IF Len(parts) > 1 THEN parts[2] ELSE <<>>>>

DRecv_holding(t) ==
    /\ thr[t].pc = "recv"
    /\ LET c == thr[t].sock IN
       /\ ServerCanRecv(conn[c])
       /\ conn' = [conn EXCEPT ![c].toSrv = IF @ = <<>> THEN @ ELSE Tail(@)]
       /\ thr' = [thr EXCEPT ![t] = Return(t, ParseResponse(ServerRecv(conn[c])))]
       /\ lock' = IF ServerRecv(conn[c]) = None THEN lock ELSE [lock EXCEPT ![c] = "free"]
    /\ UNCHANGED <<frVars, storeVars, clients, notif, nconn, tokenFile, opc, budget>>

\* response = recv_message(client_socket) returns; the result is parsed
DRecv(t) ==
    /\ thr[t].pc = "recv"
    /\ LET c == thr[t].sock IN
       /\ ServerCanRecv(conn[c])
       /\ conn' = [conn EXCEPT ![c].toSrv = IF @ = <<>> THEN @ ELSE Tail(@)]
       /\ thr' = [thr EXCEPT ![t] = Return(t, ParseResponse(ServerRecv(conn[c])))]
       /\ lock' = [lock EXCEPT ![c] = "free"]
    /\ UNCHANGED <<frVars, storeVars, clients, notif, nconn, tokenFile, opc, budget>>

DTimeout_closing(t) ==
    /\ thr[t].pc = "recv"
    /\ LET c == thr[t].sock IN
       /\ ~ServerCanRecv(conn[c])
       /\ thr' = [thr EXCEPT ![t] = Return(t, <<None, Err("Timeout waiting for response")>>)]
       /\ lock' = [lock EXCEPT ![c] = "free"]
       /\ conn' = [conn EXCEPT ![c].srvOpen = FALSE]
    /\ UNCHANGED <<frVars, storeVars, clients, notif, nconn, tokenFile, opc, budget>>

\* recv_message raises socket.timeout: SOCKET_TIMEOUT passed with no frame
DTimeout(t) ==
    /\ thr[t].pc = "recv"
    /\ LET c == thr[t].sock IN
       /\ ~ServerCanRecv(conn[c])
       /\ thr' = [thr EXCEPT ![t] = Return(t, <<None, Err("Timeout waiting for response")>>)]
       /\ lock' = [lock EXCEPT ![c] = "free"]
    /\ UNCHANGED <<frVars, storeVars, clients, notif, conn, nconn, tokenFile, opc, budget>>

\* The result of a command on its way back, apart from the sockets: the
\* pair execute_command returned, the frame main_loop builds from it, and
\* what send_command_to_client makes of that frame.
MaxOutLen == 3

OutChars == {"a", "|"}

RECURSIVE OutputsUpTo(_)
OutputsUpTo(n) ==
    IF n = 0 THEN {<<>>}
    ELSE OutputsUpTo(n - 1) \cup
         {Append(t, c) : t \in {u \in OutputsUpTo(n - 1) : Len(u) = n - 1},
                         c \in OutChars}

\* result = f"{MSG_RESULT}:{stdout}|||{stderr}"
ResultFrame(stdout, stderr) == MSG_RESULT \o Colon \o stdout \o DELIM \o stderr

ResultInit ==
    /\ fr = FrFresh("closed")
    /\ frPrev = [class |-> "none", ret |-> RetNone]
    /\ rt \in {[pc |-> "executed", stdout |-> o, stderr |-> e, frame |-> <<>>,
                 ret |-> <<>>] : o \in OutputsUpTo(MaxOutLen), e \in OutputsUpTo(MaxOutLen)}

\* main_loop: the frame is built and sent
RBuild ==
    /\ rt.pc = "executed"
    /\ rt' = [rt EXCEPT !.pc = "framed", !.frame = ResultFrame(rt.stdout, rt.stderr)]
    /\ UNCHANGED <<fr, frPrev, storeVars, sysVars>>

\* send_command_to_client: the received frame is parsed
RParse ==
    /\ rt.pc = "framed"
    /\ rt' = [rt EXCEPT !.pc = "parsed", !.ret = ParseResponse(rt.frame)]
    /\ UNCHANGED <<fr, frPrev, storeVars, sysVars>>

ResultNext ==
    \/ RBuild
    \/ RParse

(***************************************************************************)
(* Part 8.  Operator commands (server/cli.py)                              *)
(***************************************************************************)

\* the operator between commands; said is what the last renew printed
Said(text) == [pc |-> "idle", hostname |-> None, said |-> text]

OpIdle == Said("")

OperatorFree == opc.pc = "idle" /\ thr["operator"].pc = "idle"

\* cli.list_clients: with clients_lock, a copy of clients is taken
OList ==
    /\ OperatorFree
    /\ RegistryFree
    /\ UNCHANGED vars

\* cli.approve_token
OApprove(h) ==
    /\ OperatorFree
    /\ db' = approve_token(db, h).db
    /\ UNCHANGED <<frVars, gen, call, sysVars>>

\* cli.deny_token
ODeny(h) ==
    /\ OperatorFree
    /\ db' = deny_token(db, h).db
    /\ UNCHANGED <<frVars, gen, call, sysVars>>

\* cli.add_token_manual
OAdd(h) ==
    /\ OperatorFree
    /\ LET r == add_token_manual(db, gen, h) IN
       /\ CanGenerate(r.gen)
       /\ db' = r.db
       /\ gen' = r.gen
    /\ UNCHANGED <<frVars, call, sysVars>>

\* cli.revoke_token: token_manager.revoke_token(hostname)
ORevoke(h) ==
    /\ OperatorFree
    /\ budget.kicks < MaxKicks
    /\ budget' = [budget EXCEPT !.kicks = @ + 1]
    /\ LET r == revoke_token(db, h) IN
       /\ db' = r.db
       /\ opc' = IF r.ret THEN [pc |-> "kick_revoked", hostname |-> h] ELSE OpIdle
    /\ UNCHANGED <<frVars, gen, call, clients, lock, notif, conn, nconn, tokenFile, thr>>

\* with clients_lock: send the notice on the socket of clients[hostname]
Kick(hostname, status) ==
    IF hostname \in DOMAIN clients
    THEN [conn EXCEPT ![clients[hostname]] = Sent(@, Msg2(MSG_TOKEN_STATUS, status))]
    ELSE conn

\* cli.revoke_token: kick the client if connected
ORevokeKick ==
    /\ opc.pc = "kick_revoked"
    /\ RegistryFree
    /\ conn' = Kick(opc.hostname, TOKEN_REVOKED)
    /\ opc' = OpIdle
    /\ UNCHANGED <<frVars, storeVars, clients, lock, notif, nconn, tokenFile, thr, budget>>

\* cli.delete_token: look the token up; the operator confirms with 'yes'
ODelete(h) ==
    /\ OperatorFree
    /\ budget.kicks < MaxKicks
    /\ budget' = [budget EXCEPT !.kicks = @ + 1]
    /\ LET token == get_token_by_hostname(db, h)[1] IN
       opc' = IF token = None \/ token = <<>> THEN OpIdle
              ELSE [pc |-> "kick_deleted", hostname |-> h]
    /\ UNCHANGED <<frVars, storeVars, clients, lock, notif, conn, nconn, tokenFile, thr>>

\* cli.delete_token: kick the client if connected
ODeleteKick ==
    /\ opc.pc = "kick_deleted"
    /\ RegistryFree
    /\ conn' = Kick(opc.hostname, DELETED)
    /\ opc' = [opc EXCEPT !.pc = "delete_db"]
    /\ UNCHANGED <<frVars, storeVars, clients, lock, notif, nconn, tokenFile, thr, budget>>

\* cli.delete_token: token_manager.delete_token(hostname)
ODeleteDb ==
    /\ opc.pc = "delete_db"
    /\ db' = delete_token(db, opc.hostname).db
    /\ opc' = OpIdle
    /\ UNCHANGED <<frVars, gen, call, clients, lock, notif, conn, nconn, tokenFile, thr,
                   budget>>

\* cli.renew_token: get_token_by_hostname, then the two tests that return
ORenew(h) ==
    /\ OperatorFree
    /\ LET got == get_token_by_hostname(db, h)
           token == got[1]
           status == got[2]
       IN
       opc' = IF token = None \/ token = <<>> THEN Said("No token found")
              ELSE IF status # TOKEN_REVOKED THEN Said("Only revoked tokens can be renewed")
              ELSE [pc |-> "renew_approve", hostname |-> h, token |-> token]
    /\ UNCHANGED <<frVars, storeVars, clients, lock, notif, conn, nconn, tokenFile, thr,
                   budget>>

\* cli.renew_token: token_manager.approve_token(hostname)
ORenewApprove ==
    /\ opc.pc = "renew_approve"
    /\ LET r == approve_token(db, opc.hostname) IN
       /\ db' = r.db
       /\ opc' = IF r.ret[1] THEN Said("Token renewed") ELSE Said("Failed to renew token")
    /\ UNCHANGED <<frVars, gen, call, clients, lock, notif, conn, nconn, tokenFile, thr,
                   budget>>

(***************************************************************************)
(* Part 9.  The system                                                     *)
(***************************************************************************)

SysInit ==
    /\ clients = EmptyTable
    /\ lock = [c \in {clients_lock} \cup Conns |-> "free"]
    /\ notif = <<>>
    /\ conn = [c \in Conns |-> NoConn]
    /\ nconn = 0
    /\ tokenFile = [h \in Hosts |-> NoFile]
    /\ thr = [t \in Threads |-> Idle]
    /\ opc = OpIdle
    /\ budget = [dispatch |-> 0, kicks |-> 0]

Init == FrIdle /\ StoreInit /\ SysInit

Next ==
    \/ \E c \in Conns : HFirstOther(c)
    \/ \E c \in Conns : HFirstTokenRequest(c)
    \/ \E c \in Conns : HFirstRegister(c)
    \/ \E c \in Conns : HPoll(c)
    \/ \E c \in Conns : HInsert(c)
    \/ \E c \in Conns : HSleep(c)
    \/ \E c \in Conns : HRaise(c)
    \/ \E first \in Probes : CProbe(first)
    \/ \E h \in Endpoints : CRequestToken(h)
    \/ \E h \in Endpoints : \E foreign \in ForeignTokens \cup {None} : CWriteFile(h, foreign)
    \/ \E c \in Conns : CTokenFirstReply(c)
    \/ \E c \in Conns : CPollSend(c)
    \/ \E c \in Conns : \E kind \in PollOthers : CPollOther(c, kind)
    \/ \E c \in Conns : CPollReply(c)
    \/ \E h \in Endpoints : \E waits \in BOOLEAN : CRegister(h, waits)
    \/ \E c \in Conns : CAuthReply(c)
    \/ \E c \in Conns : CAuthTimeout(c)
    \/ \E c \in Conns : CMain(c)
    \/ \E c \in Conns : \E reply \in OtherReplies : COther(c, reply)
    \/ \E c \in Conns : CAbort(c)
    \/ \E t \in Threads : \E h \in Endpoints : \E command \in Commands : DLookup(t, h, command)
    \/ \E t \in Threads : DAcquire(t)
    \/ \E t \in Threads : DSend(t)
    \/ \E t \in Threads : DRecv(t)
    \/ \E t \in Threads : DTimeout(t)
    \/ OList
    \/ \E h \in Endpoints : OApprove(h)
    \/ \E h \in Endpoints : ODeny(h)
    \/ \E h \in Endpoints : OAdd(h)
    \/ \E h \in Endpoints : ORevoke(h)
    \/ ORevokeKick
    \/ \E h \in Endpoints : ODelete(h)
    \/ ODeleteKick
    \/ ODeleteDb
    \/ \E h \in Endpoints : ORenew(h)
    \/ ORenewApprove

Spec == Init /\ [][Next]_vars

FramingInit == FrInit /\ StoreInit /\ SysInit

SpecFraming == FramingInit /\ [][FramingNext]_vars

SpecStore == Init /\ [][StoreNext]_vars

ResultSysInit == ResultInit /\ StoreInit /\ SysInit

SpecResult == ResultSysInit /\ [][ResultNext]_vars

\* token issue and registration: the handler threads, endpoints running
\* client.py, other peers, and the operator's token commands
AuthNext ==
    \/ \E c \in Conns : HFirstOther(c)
    \/ \E c \in Conns : HFirstTokenRequest(c)
    \/ \E c \in Conns : HFirstRegister(c)
    \/ \E c \in Conns : HPoll(c)
    \/ \E c \in Conns : HInsert(c)
    \/ \E first \in Probes : CProbe(first)
    \/ \E h \in Endpoints : CRequestToken(h)
    \/ \E h \in Endpoints : \E foreign \in ForeignTokens \cup {None} : CWriteFile(h, foreign)
    \/ \E c \in Conns : CTokenFirstReply(c)
    \/ \E c \in Conns : CPollSend(c)
    \/ \E c \in Conns : CPollReply(c)
    \/ \E h \in Endpoints : CRegister(h, TRUE)
    \/ \E c \in Conns : CAuthReply(c)
    \/ \E c \in Conns : CAuthTimeout(c)
    \/ \E h \in Endpoints : OApprove(h)
    \/ \E h \in Endpoints : ODeny(h)
    \/ \E h \in Endpoints : ORevoke(h)
    \/ ORevokeKick

AuthInit == FrIdle /\ StoreInit /\ SysInit

SpecAuth == AuthInit /\ [][AuthNext]_vars

\* command dispatch to registered peers that run the command loop
DispatchNext ==
    \/ \E h \in Endpoints : OAdd(h)
    \/ \E h \in Endpoints : CWriteFile(h, None)
    \/ \E h \in Endpoints : CRegister(h, FALSE)
    \/ \E c \in Conns : HFirstRegister(c)
    \/ \E c \in Conns : HInsert(c)
    \/ \E c \in Conns : CMain(c)
    \/ \E c \in Conns : CAbort(c)
    \/ \E t \in Threads : \E h \in Endpoints : \E command \in Commands : DLookup(t, h, command)
    \/ \E t \in Threads : DAcquire(t)
    \/ \E t \in Threads : DSend(t)
    \/ \E t \in Threads : DRecv(t)
    \/ \E t \in Threads : DTimeout(t)

DispatchInit == FrIdle /\ StoreInit /\ SysInit

SpecDispatch == DispatchInit /\ [][DispatchNext]_vars

\* the operator's commands to registered peers, those that run client.py's
\* command loop and those that answer in other ways
RepliesNext ==
    \/ \E h \in Endpoints : OAdd(h)
    \/ \E h \in Endpoints : CWriteFile(h, None)
    \/ \E h \in Endpoints : CRegister(h, FALSE)
    \/ \E c \in Conns : HFirstRegister(c)
    \/ \E c \in Conns : HInsert(c)
    \/ \E c \in Conns : CMain(c)
    \/ \E c \in Conns : \E reply \in OtherReplies : COther(c, reply)
    \/ \E c \in Conns : CAbort(c)
    \/ \E h \in Endpoints : \E command \in Commands : DLookup("operator", h, command)
    \/ DAcquire("operator")
    \/ DSend("operator")
    \/ DRecv("operator")
    \/ DTimeout("operator")

RepliesInit == FrIdle /\ StoreInit /\ SysInit

SpecReplies == RepliesInit /\ [][RepliesNext]_vars

\* the life of a registered connection: registration, the handler's sleep
\* loop, the peer's command loop and its end, revocation by the operator
LiveNext ==
    \/ \E h \in Endpoints : OAdd(h)
    \/ \E h \in Endpoints : CWriteFile(h, None)
    \/ \E h \in Endpoints : CRegister(h, FALSE)
    \/ \E c \in Conns : HFirstRegister(c)
    \/ \E c \in Conns : HInsert(c)
    \/ \E c \in Conns : HSleep(c)
    \/ \E c \in Conns : CMain(c)
    \/ \E c \in Conns : CAbort(c)
    \/ \E h \in Endpoints : ORevoke(h)
    \/ ORevokeKick
    \/ \E t \in Threads : \E h \in Endpoints : \E command \in Commands : DLookup(t, h, command)

LiveInit == FrIdle /\ StoreInit /\ SysInit

\* the steps of the server's threads and of the peer's command loop
LiveProgress ==
    \/ \E c \in Conns : HFirstRegister(c)
    \/ \E c \in Conns : HInsert(c)
    \/ \E c \in Conns : CMain(c)
    \/ ORevokeKick

\* a thread that can take a step is scheduled.  Each of these steps consumes
\* a frame or ends a phase, so none can be taken for ever in place of another
LiveFairness == WF_vars(LiveProgress)

SpecLive == LiveInit /\ [][LiveNext]_vars /\ LiveFairness

\* the first frame of a connection, from endpoints and from other peers
FirstNext ==
    \/ \E h \in Endpoints : OAdd(h)
    \/ \E h \in Endpoints : CWriteFile(h, None)
    \/ \E h \in Endpoints : CRegister(h, FALSE)
    \/ \E h \in Endpoints : CRequestToken(h)
    \/ \E first \in Probes : CProbe(first)
    \/ \E c \in Conns : HFirstOther(c)
    \/ \E c \in Conns : HFirstTokenRequest(c)
    \/ \E c \in Conns : HFirstRegister(c)
    \/ \E c \in Conns : HInsert(c)

FirstInit == FrIdle /\ StoreInit /\ SysInit

SpecFirst == FirstInit /\ [][FirstNext]_vars

\* the registry: registrations, the end of handlers, the operator's notices
\* to registered peers and its commands to them
RegistryNext ==
    \/ \E h \in Endpoints : OAdd(h)
    \/ \E h \in Endpoints : CWriteFile(h, None)
    \/ \E h \in Endpoints : CRegister(h, FALSE)
    \/ \E c \in Conns : HFirstRegister(c)
    \/ \E c \in Conns : HInsert(c)
    \/ \E c \in Conns : HRaise(c)
    \/ \E c \in Conns : CMain(c)
    \/ \E h \in Endpoints : ORevoke(h)
    \/ ORevokeKick
    \/ \E h \in Endpoints : ODelete(h)
    \/ ODeleteKick
    \/ ODeleteDb
    \/ \E h \in Endpoints : \E command \in Commands : DLookup("operator", h, command)
    \/ DAcquire("operator")
    \/ DSend("operator")
    \/ DRecv("operator")
    \/ DTimeout("operator")

RegistryInit == FrIdle /\ StoreInit /\ SysInit

SpecRegistry == RegistryInit /\ [][RegistryNext]_vars

\* the operator's commands, of two kinds, to a registered peer that runs
\* client.py's command loop and may answer after the timeout
PairingNext ==
    \/ \E h \in Endpoints : OAdd(h)
    \/ \E h \in Endpoints : CWriteFile(h, None)
    \/ \E h \in Endpoints : CRegister(h, FALSE)
    \/ \E c \in Conns : HFirstRegister(c)
    \/ \E c \in Conns : HInsert(c)
    \/ \E c \in Conns : CMain(c)
    \/ \E h \in Endpoints : \E command \in {<<"x">>, <<"y">>} : DLookup("operator", h, command)
    \/ DAcquire("operator")
    \/ DSend("operator")
    \/ DRecv("operator")
    \/ DTimeout("operator")

SpecPairing == Init /\ [][PairingNext]_vars

\* the operator's commands on the tokens of hostnames with and without a
\* row, next to the registration and the token request of an endpoint
OperatorNext ==
    \/ \E h \in Endpoints : OAdd(h)
    \/ \E h \in Endpoints : CWriteFile(h, None)
    \/ \E h \in Endpoints : CRegister(h, FALSE)
    \/ \E h \in Endpoints : CRequestToken(h)
    \/ \E c \in Conns : HFirstRegister(c)
    \/ \E c \in Conns : HFirstTokenRequest(c)
    \/ \E c \in Conns : HInsert(c)
    \/ \E h \in Hosts : OApprove(h)
    \/ \E h \in Hosts : ODeny(h)
    \/ \E h \in Hosts : ORevoke(h)
    \/ ORevokeKick
    \/ \E h \in Hosts : ODelete(h)
    \/ ODeleteKick
    \/ ODeleteDb

SpecOperator == Init /\ [][OperatorNext]_vars

\* the operator's commands to an endpoint before and after it has revoked or
\* deleted the endpoint's token, while the endpoint has not yet read what it
\* was sent
RevokedNext ==
    \/ \E h \in Endpoints : OAdd(h)
    \/ \E h \in Endpoints : CWriteFile(h, None)
    \/ \E h \in Endpoints : CRegister(h, FALSE)
    \/ \E c \in Conns : HFirstRegister(c)
    \/ \E c \in Conns : HInsert(c)
    \/ \E h \in Endpoints : ORevoke(h)
    \/ ORevokeKick
    \/ \E h \in Endpoints : ODelete(h)
    \/ ODeleteKick
    \/ ODeleteDb
    \/ \E h \in Endpoints : \E command \in Commands : DLookup("operator", h, command)
    \/ DAcquire("operator")
    \/ DSend("operator")
    \/ DTimeout("operator")

SpecRevoked == Init /\ [][RevokedNext]_vars

\* status checks as first messages, next to a request and the operator's
\* decisions on its record
LookupNext ==
    \/ \E h \in Endpoints : CRequestToken(h)
    \/ \E first \in StatusChecks : CProbe(first)
    \/ \E c \in Conns : HFirstTokenRequest(c)
    \/ \E h \in Endpoints : OApprove(h)
    \/ \E h \in Endpoints : ODeny(h)
    \/ \E h \in Endpoints : ORevoke(h)
    \/ ORevokeKick

SpecLookup == Init /\ [][LookupNext]_vars

\* every way out of a session that is not yet registered: a malformed or
\* status-check first message, the poll loop (a reply that ends it, an
\* unexpected frame, the peer's disconnect), a rejected registration and a
\* failure of the handler, next to the operator's approve and deny
ExitsNext ==
    \/ \E h \in Endpoints : CRequestToken(h)
    \/ \E first \in {MSG_TOKEN_REQUEST} \cup StatusChecks : CProbe(first)
    \/ \E h \in Endpoints : CWriteFile(h, None)
    \/ \E h \in Endpoints : CRegister(h, FALSE)
    \/ \E c \in Conns : HFirstTokenRequest(c)
    \/ \E c \in Conns : HFirstRegister(c)
    \/ \E c \in Conns : HInsert(c)
    \/ \E c \in Conns : HPoll(c)
    \/ \E c \in Conns : HRaise(c)
    \/ \E c \in Conns : CTokenFirstReply(c)
    \/ \E c \in Conns : CPollSend(c)
    \/ \E c \in Conns : CPollOther(c, "other")
    \/ \E h \in Endpoints : OApprove(h)
    \/ \E h \in Endpoints : ODeny(h)

SpecExits == Init /\ [][ExitsNext]_vars

\* every frame the server writes before and after a registration: the replies
\* of the credential-request path, of a status check and of a registration,
\* and the operator's revoke notice
SecretsNext ==
    \/ \E h \in Endpoints : CRequestToken(h)
    \/ \E first \in StatusChecks : CProbe(first)
    \/ \E h \in Endpoints : CWriteFile(h, None)
    \/ \E h \in Endpoints : CRegister(h, FALSE)
    \/ \E c \in Conns : HFirstTokenRequest(c)
    \/ \E c \in Conns : HFirstRegister(c)
    \/ \E c \in Conns : HInsert(c)
    \/ \E c \in Conns : HPoll(c)
    \/ \E c \in Conns : CTokenFirstReply(c)
    \/ \E c \in Conns : CPollSend(c)
    \/ \E h \in Endpoints : OApprove(h)
    \/ \E h \in Endpoints : ODeny(h)
    \/ \E h \in Endpoints : ORevoke(h)
    \/ ORevokeKick

SpecSecrets == Init /\ [][SecretsNext]_vars

\* the two kinds of lock: registrations and commands of two hostnames, and
\* the operator's listing
LocksNext ==
    \/ \E h \in Hosts : OAdd(h)
    \/ \E h \in Hosts : CWriteFile(h, None)
    \/ \E h \in Hosts : CRegister(h, FALSE)
    \/ \E c \in Conns : HFirstRegister(c)
    \/ \E c \in Conns : HInsert(c)
    \/ \E c \in Conns : CMain(c)
    \/ OList
    \/ \E t \in Threads : \E h \in Hosts : \E command \in Commands : DLookup(t, h, command)
    \/ \E t \in Threads : DAcquire(t)
    \/ \E t \in Threads : DSend(t)
    \/ \E t \in Threads : DRecv(t)

SpecLocks == Init /\ [][LocksNext]_vars

\* the issue of a token to an endpoint that runs client.py's request and
\* poll loop, and the operator's answer
StatusNext ==
    \/ \E h \in Endpoints : CRequestToken(h)
    \/ \E c \in Conns : HFirstTokenRequest(c)
    \/ \E c \in Conns : CTokenFirstReply(c)
    \/ \E c \in Conns : CPollSend(c)
    \/ \E c \in Conns : CPollReply(c)
    \/ \E c \in Conns : HPoll(c)
    \/ \E h \in Endpoints : OApprove(h)
    \/ \E h \in Endpoints : ODeny(h)

SpecStatus == Init /\ [][StatusNext]_vars

\* the issue of tokens: requests, the poll loop and the operator's answers
PollNext ==
    \/ \E h \in Endpoints : CRequestToken(h)
    \/ \E c \in Conns : HFirstTokenRequest(c)
    \/ \E c \in Conns : CTokenFirstReply(c)
    \/ \E c \in Conns : CPollSend(c)
    \/ \E c \in Conns : \E kind \in PollOthers : CPollOther(c, kind)
    \/ \E c \in Conns : CPollReply(c)
    \/ \E c \in Conns : HPoll(c)
    \/ \E h \in Endpoints : OApprove(h)
    \/ \E h \in Endpoints : ODeny(h)
    \/ \E h \in Endpoints : ORevoke(h)
    \/ ORevokeKick

PollInit == FrIdle /\ StoreInit /\ SysInit

SpecPoll == PollInit /\ [][PollNext]_vars

\* the operator's token commands while endpoints ask for tokens
RenewNext ==
    \/ \E h \in Endpoints : CRequestToken(h)
    \/ \E c \in Conns : HFirstTokenRequest(c)
    \/ \E h \in Endpoints : OApprove(h)
    \/ \E h \in Endpoints : ODeny(h)
    \/ \E h \in Endpoints : OAdd(h)
    \/ \E h \in Endpoints : ORevoke(h)
    \/ ORevokeKick
    \/ \E h \in Endpoints : ORenew(h)
    \/ ORenewApprove

RenewInit == FrIdle /\ StoreInit /\ SysInit

SpecRenew == RenewInit /\ [][RenewNext]_vars

(***************************************************************************)
(* Part 10.  Properties                                                    *)
(***************************************************************************)

\* C1: a handler that has reached its idle loop after a successful
\* registration has sent TOKEN_STATUS:approved as the first frame on that
\* connection, has its endpoint in the registry and has left the socket open
C1_Success ==
    \A c \in Conns :
        conn[c].hpc = "idle" =>
            /\ conn[c].out # <<>>
            /\ conn[c].out[1] = Msg2(MSG_TOKEN_STATUS, TOKEN_APPROVED)
            /\ conn[c].hostname \in DOMAIN clients
            /\ conn[c].srvOpen

\* C2: a REGISTER of three fields that is not the success case is answered
\* with exactly one frame, TOKEN_STATUS:revoked when the secret matches a
\* revoked record and TOKEN_STATUS:invalid otherwise, and the socket is closed
\* with the registry as it was
C2_Rejects ==
    [][\A c \in Conns :
          LET parts == Split(ServerRecv(conn[c]), Colon, 2)
              h == parts[2]
              matches == h \in DOMAIN db /\ db[h].token = parts[3]
              success == matches /\ db[h].status = TOKEN_APPROVED
              reply == IF matches /\ db[h].status = TOKEN_REVOKED
                       THEN TOKEN_REVOKED ELSE TOKEN_INVALID
          IN (HFirstRegister(c) /\ Len(parts) = 3 /\ ~success) =>
                /\ conn'[c].out = <<Msg2(MSG_TOKEN_STATUS, reply)>>
                /\ ~conn'[c].srvOpen
                /\ clients' = clients]_vars

\* C3: once the peer of an idle registered connection is gone, the handler
\* eventually takes the connection out of the registry; and a dispatch to a
\* hostname that is not in the registry returns the not-found error
C3_Cleanup ==
    /\ \A c \in Conns :
          (conn[c].hpc = "idle" /\ ~conn[c].peerOpen)
              ~> (conn[c].hostname \notin DOMAIN clients
                  \/ clients[conn[c].hostname] # c)
    /\ [][\A t \in Threads : \A h \in Endpoints : \A command \in Commands :
            (DLookup(t, h, command) /\ h \notin DOMAIN clients) =>
                thr'[t].ret = <<None, Err("Client not found or not authenticated")>>]_vars

\* C4: when the operator revokes an endpoint that has a registry entry,
\* TOKEN_STATUS:revoked is sent on the registered socket; and once it has been
\* sent, eventually the peer has ended its connection and the registry no
\* longer holds the endpoint
C4_Revocation ==
    /\ [][(ORevokeKick /\ opc.hostname \in DOMAIN clients) =>
            LET out == conn'[clients[opc.hostname]].out IN
            out # <<>> /\ out[Len(out)] = Msg2(MSG_TOKEN_STATUS, TOKEN_REVOKED)]_vars
    /\ \A c \in Conns :
          (/\ conn[c].hpc = "idle"
           /\ \E i \in 1..Len(conn[c].out) :
                 conn[c].out[i] = Msg2(MSG_TOKEN_STATUS, TOKEN_REVOKED))
              ~> (/\ ~conn[c].peerOpen
                  /\ conn[c].hostname \notin DOMAIN clients)

\* C5: no two threads are inside the socket_lock section of
\* send_command_to_client (from before the CMD send to after the response
\* receive) on the same socket
C5_Mutex ==
    \A t1, t2 \in Threads :
        (/\ t1 # t2
         /\ thr[t1].pc \in {"send", "recv"}
         /\ thr[t2].pc \in {"send", "recv"})
            => thr[t1].sock # thr[t2].sock

C5_Witness ==
    /\ thr["operator"].pc = "recv"
    /\ thr["aux"].pc = "acquire"
    /\ thr["operator"].sock = thr["aux"].sock
    /\ conn[thr["aux"].sock].toSrv # <<>>
    /\ StartsWith(Head(conn[thr["aux"].sock].toSrv), MSG_RESULT)

\* C6: an endpoint running client.py whose REGISTER the server has accepted
\* (its handler is idle) leaves connect_to_server only after it has received
\* TOKEN_STATUS:approved
C6_EndToEnd ==
    \A c \in Conns :
        (conn[c].repo /\ conn[c].hpc = "idle" /\ conn[c].cpc # "r_wait") =>
            \E i \in 1..conn[c].rd :
                conn[c].out[i] = Msg2(MSG_TOKEN_STATUS, TOKEN_APPROVED)

FrameWhole == fr.pc = "done" /\ fr.sent # NoText /\ fr.wrote = 4 + fr.declared

\* C7: every payload of encoded length 0..MAX_MESSAGE_SIZE written by
\* send_message and delivered whole is returned unchanged by recv_message
C7_RoundTrip ==
    (FrameWhole /\ fr.declared <= MAX_MESSAGE_SIZE)
        => fr.ret = [kind |-> "str", val |-> fr.sent]

\* the same for payloads of at least one byte; the frames of Part 4 rest on it
FramingLemma ==
    (FrameWhole /\ fr.declared >= 1 /\ fr.declared <= MAX_MESSAGE_SIZE)
        => fr.ret = [kind |-> "str", val |-> fr.sent]

\* C8: a declared length above MAX_MESSAGE_SIZE fails the frame with only the
\* 4 header bytes consumed; a declared length of exactly MAX_MESSAGE_SIZE is
\* accepted and its payload read
C8_Oversized ==
    (fr.pc = "done" /\ fr.wrote >= 4) =>
        /\ fr.declared > MAX_MESSAGE_SIZE => (fr.ret = RetNone /\ fr.consumed = 4)
        /\ (fr.declared = MAX_MESSAGE_SIZE /\ fr.wrote = 4 + fr.declared) =>
               (fr.ret.kind = "str" /\ fr.consumed = 4 + MAX_MESSAGE_SIZE)

C8_Witness ==
    /\ fr.pc = "done"
    /\ fr.declared = MAX_MESSAGE_SIZE + 1
    /\ fr.wrote > 4
    /\ fr.consumed = 4
    /\ frPrev.class = "complete"
    /\ frPrev.ret.kind = "str"

\* C9: recv_message's result for an oversized declared length differs from
\* its result for a stream closed before the frame was complete
C9_Distinct ==
    (fr.pc = "done" /\ FrClass = "oversized" /\ frPrev.class = "closed_early")
        => fr.ret # frPrev.ret

IssuedBefore(c) == {generate_token(i) : i \in 0..(c.preGen - 1)}

\* C10: request_token on a hostname without a row adds exactly one row,
\* pending, with a token never issued before, and returns it; on a row that
\* is approved or pending it returns the stored token and status and leaves
\* the table as it was
C10_Request ==
    call.op = "request_token" =>
        LET h == call.host
            pre == call.pre
        IN
        /\ h \notin DOMAIN pre =>
              /\ DOMAIN db = DOMAIN pre \cup {h}
              /\ \A x \in DOMAIN pre : db[x] = pre[x]
              /\ db[h].status = TOKEN_PENDING
              /\ db[h].token \notin IssuedBefore(call)
              /\ call.ret = <<TRUE, db[h].token, TOKEN_PENDING>>
        /\ (h \in DOMAIN pre /\ pre[h].status \in {TOKEN_APPROVED, TOKEN_PENDING}) =>
              /\ db = pre
              /\ gen = call.preGen
              /\ call.ret = <<TRUE, pre[h].token, pre[h].status>>

C10_Witness ==
    /\ call.op = "request_token"
    /\ call.host \in DOMAIN call.pre
    /\ call.pre[call.host].status = TOKEN_PENDING
    /\ call.preGen >= 2
    /\ db = call.pre

\* C11: request_token on a row that is revoked or denied stores a newly
\* generated token different from the row's previous one, sets the status to
\* pending, clears approved_at and revoked_at and returns the new token with
\* pending; a REGISTER carrying the previous token is then answered invalid
C11_Rerequest ==
    (/\ call.op = "request_token"
     /\ call.host \in DOMAIN call.pre
     /\ call.pre[call.host].status \in {TOKEN_REVOKED, TOKEN_DENIED}) =>
        LET h == call.host
            old == call.pre[h].token
            reg == handle_registration(Msg3(MSG_REGISTER, h, old), db)
        IN
        /\ DOMAIN db = DOMAIN call.pre
        /\ \A x \in DOMAIN call.pre \ {h} : db[x] = call.pre[x]
        /\ db[h].token # old
        /\ db[h].token \notin IssuedBefore(call)
        /\ db[h].token = generate_token(call.preGen)
        /\ db[h].status = TOKEN_PENDING
        /\ db[h].approved_at = NULL
        /\ db[h].revoked_at = NULL
        /\ call.ret = <<TRUE, db[h].token, TOKEN_PENDING>>
        /\ reg.outcome = "reject"
        /\ reg.frames = <<Msg2(MSG_TOKEN_STATUS, TOKEN_INVALID)>>

C11_Witness ==
    /\ call.op = "request_token"
    /\ call.host \in DOMAIN call.pre
    /\ call.pre[call.host].status = TOKEN_REVOKED
    /\ call.pre[call.host].approved_at = "ts"
    /\ call.pre[call.host].revoked_at = "ts"
    /\ db[call.host].status = TOKEN_PENDING

\* C12: approve_token on a row that is already approved returns success with
\* the stored token and leaves the table as it was, however often it is
\* called; on a hostname without a row it returns (False, None) and adds
\* nothing
C12_IdempotentApprove ==
    call.op = "approve_token" =>
        LET h == call.host
            pre == call.pre
            again == approve_token(db, h)
        IN
        /\ (h \in DOMAIN pre /\ pre[h].status = TOKEN_APPROVED) =>
              /\ db = pre
              /\ call.ret = <<TRUE, pre[h].token>>
              /\ again.db = pre
              /\ again.ret = call.ret
        /\ h \notin DOMAIN pre =>
              /\ db = pre
              /\ call.ret = <<FALSE, None>>

C12_Witness ==
    /\ call.op = "approve_token"
    /\ call.host \in DOMAIN call.pre
    /\ call.pre[call.host].status = TOKEN_APPROVED
    /\ call.ret = <<TRUE, db[call.host].token>>
    /\ DOMAIN db = Hosts

\* C13: renew_token reports success only for a row that is revoked when it
\* is approved again, and then the row is approved with the token it had
\* when renew_token looked it up; for a row that is pending, approved or
\* denied, or for no row, it reports failure and leaves the table as it was
C13_Renew ==
    [][/\ \A h \in Endpoints :
            (ORenew(h) /\ ~(h \in DOMAIN db /\ db[h].status = TOKEN_REVOKED)) =>
                /\ opc'.pc = "idle"
                /\ opc'.said \notin {"", "Token renewed"}
                /\ db' = db
       /\ (ORenewApprove /\ opc'.said = "Token renewed") =>
                /\ db[opc.hostname].status = TOKEN_REVOKED
                /\ db'[opc.hostname].status = TOKEN_APPROVED
                /\ db'[opc.hostname].token = opc.token
      ]_vars

AllowedTransitions ==
    {<<TOKEN_PENDING, TOKEN_APPROVED>>, <<TOKEN_PENDING, TOKEN_DENIED>>,
     <<TOKEN_APPROVED, TOKEN_REVOKED>>, <<TOKEN_REVOKED, TOKEN_APPROVED>>,
     <<TOKEN_REVOKED, TOKEN_PENDING>>, <<TOKEN_DENIED, TOKEN_PENDING>>}

\* C14: a store operation changes the status of a row it does not delete
\* only from pending to approved or denied, from approved to revoked, from
\* revoked to approved or pending, or from denied to pending
C14_Transitions ==
    [][\A h \in DOMAIN db \cap DOMAIN db' :
            db'[h].status # db[h].status =>
                <<db[h].status, db'[h].status>> \in AllowedTransitions
      ]_vars

\* C15: the token of a row that stays in the table changes only in a
\* request_token call for its hostname made while the row is revoked or
\* denied; approve_token, deny_token, revoke_token, add_token_manual on an
\* existing row and get_token_by_hostname leave every token as it was
C15_SecretImmutable ==
    [][\A h \in DOMAIN db \cap DOMAIN db' :
            db'[h].token # db[h].token =>
                /\ call'.op = "request_token"
                /\ call'.host = h
                /\ db[h].status \in {TOKEN_REVOKED, TOKEN_DENIED}
      ]_vars

C15_Witness ==
    /\ call.op = "request_token"
    /\ call.host \in DOMAIN call.pre
    /\ call.pre[call.host].status = TOKEN_DENIED
    /\ db[call.host].token # call.pre[call.host].token
    /\ \E x \in DOMAIN db \ {call.host} :
          db[x].status = TOKEN_APPROVED /\ db[x] = call.pre[x]

\* C16: delete_token on a hostname with a row, whatever its status, removes
\* that row only and returns True; get_token_by_hostname then returns
\* (None, None), a REGISTER carrying the removed token is answered invalid,
\* and a request_token creates a pending row with a new token; on a hostname
\* without a row delete_token returns False and leaves the table as it was
C16_Delete ==
    call.op = "delete_token" =>
        LET h == call.host
            pre == call.pre
        IN
        /\ h \in DOMAIN pre =>
              LET reg == handle_registration(Msg3(MSG_REGISTER, h, pre[h].token), db)
                  req == request_token(db, gen, h, IP)
              IN
              /\ call.ret = TRUE
              /\ DOMAIN db = DOMAIN pre \ {h}
              /\ \A x \in DOMAIN db : db[x] = pre[x]
              /\ get_token_by_hostname(db, h) = <<None, None>>
              /\ reg.outcome = "reject"
              /\ reg.frames = <<Msg2(MSG_TOKEN_STATUS, TOKEN_INVALID)>>
              /\ req.db[h].status = TOKEN_PENDING
              /\ req.db[h].token = generate_token(gen)
              /\ req.db[h].token # pre[h].token
              /\ req.ret = <<TRUE, req.db[h].token, TOKEN_PENDING>>
        /\ h \notin DOMAIN pre =>
              /\ call.ret = FALSE
              /\ db = pre

C16_Witness ==
    /\ call.op = "delete_token"
    /\ call.host \in DOMAIN call.pre
    /\ call.pre[call.host].status = TOKEN_APPROVED
    /\ call.host \notin DOMAIN db
    /\ db # EmptyTable

NotFound == <<None, Err("Client not found or not authenticated")>>

\* C17: send_command_to_client for a hostname that is not in clients returns
\* (None, "Client not found or not authenticated"), writes no frame on any
\* socket, takes no socket lock and leaves clients as it was
C17_NotFound ==
    [][\A t \in Threads : \A h \in Endpoints : \A command \in Commands :
            (DLookup(t, h, command) /\ h \notin DOMAIN clients) =>
                /\ thr'[t].pc = "idle"
                /\ thr'[t].ret = NotFound
                /\ conn' = conn
                /\ lock' = lock
                /\ clients' = clients
      ]_vars

C17_Witness ==
    /\ thr["operator"].pc = "idle"
    /\ thr["operator"].ret = NotFound
    /\ clients = EmptyTable
    /\ \E c \in Conns : conn[c].srvOpen /\ conn[c].out = <<>>
    /\ \A c \in Conns : lock[c] = "free"

Returned(t) == thr[t].pc = "idle"

\* C18: once send_command_to_client has returned, by whichever path, the
\* calling thread holds no socket lock: a lock is held only by a thread that
\* is between acquiring it and returning, on the socket it targets
C18_Released ==
    /\ \A t \in Threads : Returned(t) => \A c \in Conns : lock[c] # t
    /\ \A c \in Conns :
          lock[c] # "free" =>
              /\ thr[lock[c]].pc \in {"send", "recv"}
              /\ thr[lock[c]].sock = c

\* a call has returned through the last except clause and the next call
\* has then taken the lock of the same socket
C18_Witness ==
    /\ nconn = 1
    /\ thr["operator"].ret = <<None, Err("Error: list index out of range")>>
    /\ thr["operator"].pc = "send"
    /\ thr["operator"].sock = 1
    /\ lock[1] = "operator"

TimedOut == <<None, Err("Timeout waiting for response")>>

\* C19: when SOCKET_TIMEOUT passes without a response frame,
\* send_command_to_client returns (None, "Timeout waiting for response"),
\* the socket stays open, clients is as it was and still holds the
\* hostname, and the lock is free, so that a later call for the hostname
\* finds the entry and uses its socket
C19_Timeout ==
    [][\A t \in Threads :
            DTimeout(t) =>
                LET c == thr[t].sock
                    h == thr[t].hostname
                IN
                /\ thr'[t].pc = "idle"
                /\ thr'[t].ret = TimedOut
                /\ conn' = conn
                /\ conn'[c].srvOpen
                /\ clients' = clients
                /\ h \in DOMAIN clients'
                /\ lock'[c] = "free"
      ]_vars

\* after a timeout the same thread is sending the next command on the one
\* socket there is
C19_Witness ==
    /\ nconn = 1
    /\ thr["operator"].ret = TimedOut
    /\ thr["operator"].pc = "recv"
    /\ thr["operator"].sock = 1
    /\ conn[1].srvOpen
    /\ Len(conn[1].out) = 2

ErrorTexts ==
    {Err("Client not found or not authenticated"), Err("Failed to send command"),
     Err("No response from client (may be disconnected)"),
     Err("Invalid response format"), Err("Timeout waiting for response"),
     Err("Error: list index out of range")}

\* the call of thread t has returned an error value, and the operator's
\* loop, if it made the call, is ready for the next command
Failed(t) ==
    /\ thr[t].pc = "idle"
    /\ thr[t].ret[1] = None
    /\ thr[t].ret[2] \in ErrorTexts
    /\ t = "operator" => OperatorFree

Unusable(response) ==
    \/ response = None
    \/ ~StartsWith(response, MSG_RESULT)
    \/ Len(Split(response, Colon, 1)) < 2

C21_ExactTag ==
    [][\A t \in Threads :
          LET response == ServerRecv(conn[thr[t].sock]) IN
          (DRecv(t) /\ response # None /\ Split(response, Colon, -1)[1] # MSG_RESULT) =>
              thr'[t].ret = <<None, Err("Invalid response format")>>
      ]_vars

\* C22: for every pair (stdout, stderr), also one whose texts hold '|||' or
\* are empty, the frame RESULT:stdout|||stderr built by the endpoint is parsed
\* by send_command_to_client into that same pair
C22_ResultRoundTrip ==
    rt.pc = "parsed" => rt.ret = <<rt.stdout, rt.stderr>>

\* the poll loop of connection c takes a status_check frame
PollsStatus(c) ==
    /\ HPoll(c)
    /\ ServerRecv(conn[c]) # None
    /\ StartsWith(ServerRecv(conn[c]), MSG_TOKEN_REQUEST)
    /\ IsStatusCheck(Split(ServerRecv(conn[c]), Colon, 2))

\* C23: for each status_check frame the poll loop looks up the row of the
\* hostname of the first message: approved, it sends TOKEN_STATUS:approved
\* with the stored token and the connection is closed; denied, it sends
\* TOKEN_STATUS:denied and the connection is closed; pending, it sends
\* TOKEN_STATUS:pending and waits for the next frame
C23_PollReplies ==
    [][\A c \in Conns :
          PollsStatus(c) =>
              LET h == conn[c].hostname
                  status == get_token_by_hostname(db, h)[2]
              IN
              /\ status = TOKEN_APPROVED =>
                    /\ conn'[c].out =
                          Append(conn[c].out, Msg3(MSG_TOKEN_STATUS, TOKEN_APPROVED, db[h].token))
                    /\ ~conn'[c].srvOpen
                    /\ conn'[c].hpc = "closed"
              /\ status = TOKEN_DENIED =>
                    /\ conn'[c].out = Append(conn[c].out, Msg2(MSG_TOKEN_STATUS, TOKEN_DENIED))
                    /\ ~conn'[c].srvOpen
                    /\ conn'[c].hpc = "closed"
              /\ status = TOKEN_PENDING =>
                    /\ conn'[c].out = Append(conn[c].out, Msg2(MSG_TOKEN_STATUS, TOKEN_PENDING))
                    /\ conn'[c].srvOpen
                    /\ conn'[c].hpc = "poll"
      ]_vars

\* an endpoint was told pending, polled after the operator's approval, got
\* the stored token and wrote it to its file
C23_Witness ==
    \E c \in Conns :
        /\ conn[c].hpc = "closed"
        /\ conn[c].hostname \in DOMAIN db
        /\ conn[c].out = <<Msg2(MSG_TOKEN_STATUS, TOKEN_PENDING),
                           Msg3(MSG_TOKEN_STATUS, TOKEN_APPROVED, db[conn[c].hostname].token)>>
        /\ tokenFile[conn[c].chost] = db[conn[c].hostname].token

\* C24: in the poll loop every received frame that is no status_check, also a
\* TOKEN_REQUEST whose third field is not status_check or that has two
\* fields, ends the loop and closes the connection
C24_PollEnds ==
    [][\A c \in Conns :
          (HPoll(c) /\ ServerRecv(conn[c]) # None /\ ~PollsStatus(c)) =>
              /\ ~conn'[c].srvOpen
              /\ conn'[c].hpc = "closed"
      ]_vars

\* C25: a TOKEN_REQUEST pushes a notification only when request_token made
\* the row pending anew (no row before, or a revoked or denied one); for a
\* row already pending or approved it pushes none
C25_NotifyOnce ==
    [][\A c \in Conns :
          (HFirstTokenRequest(c) /\ notif' # notif) =>
              LET h == conn'[c].hostname IN
              \/ h \notin DOMAIN db
              \/ db[h].status \in {TOKEN_REVOKED, TOKEN_DENIED}
      ]_vars

\* a first message the handler has no use for: none received, neither kind
\* of request, or a request with too few fields
Useless(first_message) ==
    \/ first_message = None
    \/ ~StartsWith(first_message, MSG_TOKEN_REQUEST)
       /\ ~StartsWith(first_message, MSG_REGISTER)
    \/ StartsWith(first_message, MSG_TOKEN_REQUEST)
       /\ Len(Split(first_message, Colon, 2)) < 2
    \/ ~StartsWith(first_message, MSG_TOKEN_REQUEST)
       /\ StartsWith(first_message, MSG_REGISTER)
       /\ Len(Split(first_message, Colon, 2)) # 3

C29_LastInsertWins ==
    [][/\ \A c \in Conns :
             HInsert(c) =>
                /\ DOMAIN clients' = DOMAIN clients \cup {conn[c].hostname}
                /\ clients'[conn[c].hostname] = c
                /\ lock'[c] = "free"
                /\ \A h \in DOMAIN clients \ {conn[c].hostname} : clients'[h] = clients[h]
       /\ \A t \in Threads : \A h \in Endpoints : \A command \in Commands :
             (DLookup(t, h, command) /\ h \in DOMAIN clients) =>
                 thr'[t].sock = clients[h]
      ]_vars

\* both connections have registered the same hostname, the entry holds the
\* second, and while a thread that looked the first one up is still inside
\* its lock, another thread is inside the lock of the second
C29_Witness ==
    /\ conn[1].hpc = "idle" /\ conn[2].hpc = "idle"
    /\ conn[1].hostname = conn[2].hostname
    /\ \E t \in Threads : \E u \in Threads \ {t} :
          /\ thr[t].pc = "recv" /\ thr[t].sock # clients[conn[1].hostname]
          /\ lock[thr[t].sock] = t
          /\ thr[u].pc = "recv" /\ thr[u].sock = clients[conn[1].hostname]
          /\ lock[thr[u].sock] = u

\* C30: once the peer of a connection is gone, the handler of that connection
\* eventually closes its socket and its entry is out of clients; and a step
\* in which a handler closes its socket changes no other connection, no
\* entry of another hostname and no row of the tokens table, and leaves the
\* listener able to accept
C30_HandlerFailure ==
    /\ \A c \in Conns :
          (conn[c].srvOpen /\ ~conn[c].peerOpen)
              ~> (/\ ~conn[c].srvOpen
                  /\ \A h \in DOMAIN clients : clients[h] # c)
    /\ [][\A c \in Conns :
            (conn[c].srvOpen /\ ~conn'[c].srvOpen) =>
                /\ \A d \in Conns \ {c} : conn'[d] = conn[d]
                /\ \A h \in DOMAIN clients :
                      h # conn[c].hostname => h \in DOMAIN clients' /\ clients'[h] = clients[h]
                /\ db' = db
                /\ nconn' = nconn]_vars

\* a thread inside send_command_to_client after the lookup: waiting for the
\* lock of the entry, or holding it before the send or during the receive
Blocked(t) == thr[t].pc \in {"acquire", "send", "recv"}

C32_AtomicRenew ==
    [][ORenewApprove =>
          LET h == opc.hostname IN
          IF h \in DOMAIN db /\ db[h].status = TOKEN_REVOKED
          THEN /\ DOMAIN db' = DOMAIN db
               /\ db'[h].status = TOKEN_APPROVED
               /\ db'[h].token = db[h].token
               /\ \A x \in DOMAIN db \ {h} : db'[x] = db[x]
          ELSE db' = db
      ]_vars

\* C33: a call of send_command_to_client that returns a result returns the
\* output of the command it sent itself, also after an earlier call on the
\* same socket has timed out and the endpoint has answered that one late
C33_Paired ==
    [][\A t \in Threads :
          (DRecv(t) /\ thr'[t].ret[1] # None) =>
              thr'[t].ret = execute_command(thr[t].command)
      ]_vars

\* C34: approve, deny, revoke and delete of a hostname that has no row in
\* the tokens table fail (the token_manager call returns failure, revoke and
\* delete go on to no kick), and leave the table, clients and every
\* connection as they were
C34_UnknownHost ==
    [][\A h \in Hosts :
          h \notin DOMAIN db =>
             /\ OApprove(h) => ~approve_token(db, h).ret[1]
             /\ ODeny(h) => ~deny_token(db, h).ret
             /\ ORevoke(h) => ~revoke_token(db, h).ret /\ opc'.pc = "idle"
             /\ ODelete(h) => opc'.pc = "idle"
             /\ (OApprove(h) \/ ODeny(h) \/ ORevoke(h) \/ ODelete(h)) =>
                   /\ db' = db
                   /\ clients' = clients
                   /\ conn' = conn
      ]_vars

\* a revoke or a delete has been run on a hostname without a row: the one
\* row of the table has its first token and was never revoked, its endpoint
\* is registered and was sent nothing
C34_Witness ==
    /\ budget.kicks > 0
    /\ opc.pc = "idle"
    /\ \E h \in DOMAIN db :
          /\ DOMAIN db = {h}
          /\ db[h].token = generate_token(0)
          /\ db[h].revoked_at = NULL
          /\ h \in DOMAIN clients
          /\ conn[clients[h]].out = <<>>

\* C35: the first request for a hostname without a row inserts one pending
\* row with a new token and returns it; a request of another handler for the
\* same hostname while the row is pending changes nothing in the table,
\* generates no token and returns success with the token of the row and
\* status pending
C35_OneRecord ==
    [][\A c \in Conns :
          LET parts == Split(ServerRecv(conn[c]), Colon, 2)
              h == parts[2]
              r == request_token(db, gen, h, parts[3])
          IN
          (HFirstTokenRequest(c) /\ Len(parts) = 3 /\ ~IsStatusCheck(parts)) =>
              /\ h \notin DOMAIN db =>
                    /\ DOMAIN db' = DOMAIN db \cup {h}
                    /\ db'[h].status = TOKEN_PENDING
                    /\ r.ret = <<TRUE, db'[h].token, TOKEN_PENDING>>
                    /\ \A x \in DOMAIN db : db'[x] = db[x]
              /\ (h \in DOMAIN db /\ db[h].status = TOKEN_PENDING) =>
                    /\ db' = db
                    /\ gen' = gen
                    /\ r.ret = <<TRUE, db[h].token, TOKEN_PENDING>>
      ]_vars

\* two handlers have answered the first request of the same hostname with
\* pending; the table has one row, pending, and one token was generated
C35_Witness ==
    \E c \in Conns : \E d \in Conns \ {c} :
        /\ conn[c].hpc = "poll" /\ conn[d].hpc = "poll"
        /\ conn[c].hostname = conn[d].hostname
        /\ conn[c].out = <<Msg2(MSG_TOKEN_STATUS, TOKEN_PENDING)>>
        /\ conn[d].out = <<Msg2(MSG_TOKEN_STATUS, TOKEN_PENDING)>>
        /\ DOMAIN db = {conn[c].hostname}
        /\ db[conn[c].hostname].status = TOKEN_PENDING
        /\ db[conn[c].hostname].token = generate_token(0)
        /\ gen = 1

\* the TOKEN_STATUS:revoked notice is among the frames sent on connection c
Kicked(c) ==
    \E i \in 1..Len(conn[c].out) : conn[c].out[i] = Msg2(MSG_TOKEN_STATUS, TOKEN_REVOKED)

\* C36: once the operator's revoke of a hostname has returned, a connection
\* that is in clients for that hostname while its row is revoked has been
\* sent TOKEN_STATUS:revoked, also when its registration had passed the
\* token test before the revoke and inserted its entry after it
C36_NoEscape ==
    \A h \in DOMAIN clients :
        (/\ h \in DOMAIN db
         /\ db[h].status = TOKEN_REVOKED
         /\ opc.pc # "kick_revoked") => Kicked(clients[h])

C40_PureLookup ==
    [][\A c \in Conns :
          (/\ HFirstTokenRequest(c)
           /\ LET parts == Split(ServerRecv(conn[c]), Colon, 2) IN
              Len(parts) > 2 /\ parts[3] = STATUS_CHECK)
          => LET h == Split(ServerRecv(conn[c]), Colon, 2)[2]
                 status == IF h \in DOMAIN db THEN db[h].status ELSE None
                 expected ==
                     IF status = TOKEN_APPROVED
                     THEN Msg3(MSG_TOKEN_STATUS, TOKEN_APPROVED, db[h].token)
                     ELSE IF status = TOKEN_DENIED
                     THEN Msg2(MSG_TOKEN_STATUS, TOKEN_DENIED)
                     ELSE IF status = TOKEN_PENDING
                     THEN Msg2(MSG_TOKEN_STATUS, TOKEN_PENDING)
                     ELSE Msg2(MSG_TOKEN_STATUS, TOKEN_INVALID)
             IN
             /\ db' = db
             /\ gen' = gen
             /\ notif' = notif
             /\ clients' = clients
             /\ conn'[c].out = <<expected>>
             /\ conn'[c].hpc = "closed"
             /\ ~conn'[c].srvOpen]_vars

\* a finished status check of A, answered with the token of A's approved
\* record, while B has no record
C40_Witness ==
    /\ <<"A">> \in DOMAIN db
    /\ db[<<"A">>].status = TOKEN_APPROVED
    /\ <<"B">> \notin DOMAIN db
    /\ \E c \in Conns :
          /\ conn[c].hpc = "closed"
          /\ conn[c].cpc = "gone"
          /\ conn[c].hostname = <<"A">>
          /\ conn[c].out = <<Msg3(MSG_TOKEN_STATUS, TOKEN_APPROVED, db[<<"A">>].token)>>

\* the tokens handed out so far, and a frame one of whose fields is such a
\* token
Secrets(n) == {generate_token(k) : k \in 0..(n - 1)}

Carries(frame, n) ==
    LET fields == Split(frame, Colon, -1) IN
    \E i \in 1..Len(fields) : fields[i] \in Secrets(n)

\* C38: a frame the server writes carries a token only when it is the
\* TOKEN_STATUS approved frame of a handler on the credential-request path
\* (first message a TOKEN_REQUEST), the token is the one of the record of the
\* hostname named in that first message, and that record is approved; no
\* other reply (pending, denied, revoked, invalid, registration) carries one
C38_Disclosure ==
    [][\A c \in Conns :
          \A i \in (Len(conn[c].out) + 1)..Len(conn'[c].out) :
             Carries(conn'[c].out[i], gen')
             => LET h == conn'[c].hostname IN
                /\ conn[c].hpc \in {"first", "poll"}
                /\ conn[c].hpc = "first"
                      => /\ StartsWith(ServerRecv(conn[c]), MSG_TOKEN_REQUEST)
                         /\ h = Split(ServerRecv(conn[c]), Colon, 2)[2]
                /\ conn[c].hpc = "poll" => h = conn[c].hostname
                /\ h \in DOMAIN db'
                /\ db'[h].status = TOKEN_APPROVED
                /\ conn'[c].out[i] = Msg3(MSG_TOKEN_STATUS, TOKEN_APPROVED, db'[h].token)]_vars

\* the approved token has been written twice: to the handler that polled for
\* it, and to a later status check of the same hostname
C38_Witness ==
    /\ <<"A">> \in DOMAIN db
    /\ db[<<"A">>].status = TOKEN_APPROVED
    /\ \E c \in Conns :
          /\ conn[c].hostname = <<"A">>
          /\ conn[c].hpc = "closed"
          /\ Len(conn[c].out) = 2
          /\ conn[c].out[1] = Msg2(MSG_TOKEN_STATUS, TOKEN_PENDING)
          /\ conn[c].out[2] = Msg3(MSG_TOKEN_STATUS, TOKEN_APPROVED, db[<<"A">>].token)
    /\ \E c \in Conns :
          /\ conn[c].hostname = <<"A">>
          /\ conn[c].hpc = "closed"
          /\ conn[c].out = <<Msg3(MSG_TOKEN_STATUS, TOKEN_APPROVED, db[<<"A">>].token)>>

\* the handler states before AUTHENTICATED_IDLE
Early == {"first", "poll", "auth"}

====
